---------------------------- MODULE Spec2Model ----------------------------
(***************************************************************************)
(* A model of the NIP-52 calendar core of nostrcal: the tag accessor, the  *)
(* validators, the codec (parseCalendarEvent / serializeCalendarEvent) and *)
(* the query hooks (recent, upcoming with pagination, by date range,       *)
(* search, single event).                                                  *)
(*                                                                         *)
(* Representation.  A JavaScript string is a tuple of one-character        *)
(* strings, so that parseInt, the date pattern, split, includes and the    *)
(* lexicographic comparison are computed on the characters.  `undefined`   *)
(* in a string position is the tuple Undefined, which is no string of the  *)
(* model.  A JavaScript number that may be NaN or undefined is boxed:      *)
(* Num(n) is <<n>>, NaN is <<0, 0>>, an undefined number is <<>>.          *)
(***************************************************************************)
EXTENDS Integers, Sequences, FiniteSets, TLC

VARIABLES
    relay,        \* the relay's content: raw events, newest first
    now,          \* Date.now() in seconds, read by the upcoming query
    input,        \* the argument of the operation under test
    call,         \* the last operation: [op, input, result]
    pageParam,    \* useInfiniteQuery: the cursor of the next page (boxed)
    hasNextPage,  \* useInfiniteQuery: getNextPageParam(last page) != null
    page,         \* useInfiniteQuery: the page fetched last
    seen,         \* ids of the events of the pages before `page`
    fetched,      \* whether the first page has been fetched
    responses,    \* what queryFn resolves to, per cursor, for this relay
    isFetchingNextPage  \* useInfiniteQuery: a next page is being fetched

vars == <<relay, now, input, call, pageParam, hasNextPage, page, seen, fetched,
          responses, isFetchingNextPage>>

(***************************************************************************)
(* JavaScript strings and numbers                                          *)
(***************************************************************************)
Undefined == <<"undefined">>

Num(n) == <<n>>
NaN == <<0, 0>>
UndefinedNum == <<>>
IsNum(x) == Len(x) = 1
Val(x) == x[1]

\* `!v` is false exactly for a non-empty string.
Truthy(v) == v # Undefined /\ v # <<>>

Digits == {"0", "1", "2", "3", "4", "5", "6", "7", "8", "9"}
HexLetters == {"a", "b", "c", "d", "e", "f", "A", "B", "C", "D", "E", "F"}

DigitVal(c) ==
    CASE c = "0" -> 0 [] c = "1" -> 1 [] c = "2" -> 2 [] c = "3" -> 3
      [] c = "4" -> 4 [] c = "5" -> 5 [] c = "6" -> 6 [] c = "7" -> 7
      [] c = "8" -> 8 [] c = "9" -> 9
      [] c \in {"a", "A"} -> 10 [] c \in {"b", "B"} -> 11
      [] c \in {"c", "C"} -> 12 [] c \in {"d", "D"} -> 13
      [] c \in {"e", "E"} -> 14 [] c \in {"f", "F"} -> 15

Drop(s, n) == SubSeq(s, n + 1, Len(s))
Take(s, n) == SubSeq(s, 1, n)

LowerCase == <<"a", "b", "c", "d", "e", "f", "g", "h", "i", "j", "k", "l", "m",
               "n", "o", "p", "q", "r", "s", "t", "u", "v", "w", "x", "y", "z">>
UpperCase == <<"A", "B", "C", "D", "E", "F", "G", "H", "I", "J", "K", "L", "M",
               "N", "O", "P", "Q", "R", "S", "T", "U", "V", "W", "X", "Y", "Z">>
IndexIn(seq, c) == CHOOSE i \in 1..Len(seq) : seq[i] = c
InSeq(seq, c) == \E i \in 1..Len(seq) : seq[i] = c

\* The UTF-16 code unit of a character of the model's alphabet.
CharCode(c) ==
    CASE c \in Digits -> 48 + DigitVal(c)
      [] InSeq(UpperCase, c) -> 64 + IndexIn(UpperCase, c)
      [] InSeq(LowerCase, c) -> 96 + IndexIn(LowerCase, c)
      [] c = " " -> 32 [] c = "#" -> 35 [] c = "+" -> 43 [] c = "-" -> 45
      [] c = "/" -> 47 [] c = ":" -> 58 [] c = "_" -> 95

\* c.toLowerCase() and s.toLowerCase()
CharToLowerCase(c) ==
    IF InSeq(UpperCase, c) THEN LowerCase[IndexIn(UpperCase, c)] ELSE c
toLowerCase(s) == [i \in 1..Len(s) |-> CharToLowerCase(s[i])]

\* s.trim()
RECURSIVE TrimEnd(_)
TrimEnd(s) ==
    IF s # <<>> /\ s[Len(s)] = " " THEN TrimEnd(Take(s, Len(s) - 1)) ELSE s

\* s.includes(q), s.startsWith(q)
startsWith(s, q) == Len(q) <= Len(s) /\ Take(s, Len(q)) = q
includes(s, q) ==
    \E i \in 0..(Len(s) - Len(q)) : SubSeq(s, i + 1, i + Len(q)) = q

\* a < b, a <= b on strings: by code units, a proper prefix being smaller.
RECURSIVE StrLess(_, _)
StrLess(a, b) ==
    IF b = <<>> THEN FALSE
    ELSE IF a = <<>> THEN TRUE
    ELSE IF CharCode(a[1]) # CharCode(b[1]) THEN CharCode(a[1]) < CharCode(b[1])
    ELSE StrLess(Tail(a), Tail(b))

StrLeq(a, b) == a = b \/ StrLess(a, b)

RECURSIVE SkipSpaces(_)
SkipSpaces(s) == IF s # <<>> /\ s[1] = " " THEN SkipSpaces(Tail(s)) ELSE s

trim(s) == TrimEnd(SkipSpaces(s))

IsRadixDigit(c, radix) ==
    \/ c \in Digits
    \/ radix = 16 /\ c \in HexLetters

\* The value of the longest prefix of digits of `s`, continuing from `acc`.
RECURSIVE AccDigits(_, _, _)
AccDigits(s, radix, acc) ==
    IF s # <<>> /\ IsRadixDigit(s[1], radix)
    THEN AccDigits(Tail(s), radix, acc * radix + DigitVal(s[1]))
    ELSE acc

\* parseInt(s, radix): leading white space, a sign, then the longest prefix
\* of digits; NaN when that prefix is empty.
ParseIntRadix(s, radix) ==
    LET t == SkipSpaces(s)
        neg == t # <<>> /\ t[1] = "-"
        u == IF t # <<>> /\ t[1] \in {"-", "+"} THEN Tail(t) ELSE t
    IN  IF u = <<>> \/ ~IsRadixDigit(u[1], radix) THEN NaN
        ELSE Num((IF neg THEN -1 ELSE 1) * AccDigits(u, radix, 0))

\* parseInt(s) with no radix: base 16 after a 0x or 0X prefix, else base 10.
parseInt(s) ==
    LET t == SkipSpaces(s)
        neg == t # <<>> /\ t[1] = "-"
        u == IF t # <<>> /\ t[1] \in {"-", "+"} THEN Tail(t) ELSE t
        hex == Len(u) >= 2 /\ u[1] = "0" /\ u[2] \in {"x", "X"}
        h == Drop(u, 2)
    IN  IF ~hex THEN ParseIntRadix(s, 10)
        ELSE IF h = <<>> \/ ~IsRadixDigit(h[1], 16) THEN NaN
        ELSE Num((IF neg THEN -1 ELSE 1) * AccDigits(h, 16, 0))

isNaN(x) == x = NaN

\* n.toString() of an integer.
RECURSIVE NatToString(_)
NatToString(n) ==
    LET c == CHOOSE d \in Digits : DigitVal(d) = n % 10
    IN  IF n < 10 THEN <<c>> ELSE Append(NatToString(n \div 10), c)

toString(n) == IF n < 0 THEN <<"-">> \o NatToString(-n) ELSE NatToString(n)

\* /^\d{4}-\d{2}-\d{2}$/.test(s)
dateRegexTest(s) ==
    /\ Len(s) = 10
    /\ \A i \in {1, 2, 3, 4, 6, 7, 9, 10} : s[i] \in Digits
    /\ s[5] = "-"
    /\ s[8] = "-"

\* s.split(sep) for a one-character separator.
RECURSIVE split(_, _)
split(s, sep) ==
    IF \A i \in 1..Len(s) : s[i] # sep THEN <<s>>
    ELSE LET i == CHOOSE j \in 1..Len(s) :
                      s[j] = sep /\ \A k \in 1..(j - 1) : s[k] # sep
         IN  <<Take(s, i - 1)>> \o split(Drop(s, i), sep)

(***************************************************************************)
(* Raw events and the tag accessor                                         *)
(***************************************************************************)
KindDateBased == 31922
KindTimeBased == 31923
KindCalendar == 31924
KindRSVP == 31925

RawEvent(id, pubkey, kind, created_at, content, tags) ==
    [id |-> id, pubkey |-> pubkey, kind |-> kind, created_at |-> created_at,
     content |-> content, tags |-> tags]

\* tag[0] === name (an empty tag has no first element)
TagIs(tag, name) == Len(tag) >= 1 /\ tag[1] = name

\* tag[i] of a JavaScript array, zero-based: undefined past the end
TagAt(tag, i) == IF Len(tag) > i THEN tag[i + 1] ELSE Undefined

\* event.tags.find(tag => tag[0] === name): the index of the first match, 0 if none
FindTag(tags, name) ==
    IF \E i \in 1..Len(tags) : TagIs(tags[i], name)
    THEN CHOOSE i \in 1..Len(tags) :
             TagIs(tags[i], name) /\ \A j \in 1..(i - 1) : ~TagIs(tags[j], name)
    ELSE 0

getTagValue(event, tagName) ==
    LET i == FindTag(event.tags, tagName)
    IN  IF i = 0 THEN Undefined ELSE TagAt(event.tags[i], 1)

RECURSIVE FilterMapSecond(_, _)
FilterMapSecond(tags, tagName) ==
    IF tags = <<>> THEN <<>>
    ELSE (IF TagIs(Head(tags), tagName) THEN <<TagAt(Head(tags), 1)>> ELSE <<>>)
         \o FilterMapSecond(Tail(tags), tagName)

getTagValues(event, tagName) == FilterMapSecond(event.tags, tagName)

(***************************************************************************)
(* Validators                                                              *)
(***************************************************************************)
\* The zones the runtime's Intl.DateTimeFormat accepts, as far as the model's
\* inputs go.
KnownTimeZones == {<<"U", "T", "C">>, <<"E", "u", "r", "o", "p", "e", "/", "B", "e", "r", "l", "i", "n">>}

isValidTimeZone(tz) == tz \in KnownTimeZones

\* Mutant of DateEndRejected: an end equal to start is let through.
DateEndRejectedOnlyBefore(start, end) ==
    Truthy(end) /\ (~dateRegexTest(end) \/ StrLess(end, start))

\* lines 28-33: an end date that fails the pattern or is not after start
DateEndRejected(start, end) ==
    Truthy(end) /\ (~dateRegexTest(end) \/ StrLeq(end, start))

\* lines 43-49: an end time that is not a positive integer after start
TimeEndRejected(timestamp, endStr) ==
    LET endTime == parseInt(endStr)
    IN  Truthy(endStr)
        /\ (isNaN(endTime) \/ Val(endTime) <= 0 \/ Val(endTime) <= Val(timestamp))

validateCalendarEvent(event) ==
    LET d == getTagValue(event, <<"d">>)
        title == getTagValue(event, <<"t", "i", "t", "l", "e">>)
        start == getTagValue(event, <<"s", "t", "a", "r", "t">>)
        end == getTagValue(event, <<"e", "n", "d">>)
        timestamp == parseInt(start)
        start_tzid == getTagValue(event, <<"s", "t", "a", "r", "t", "_", "t", "z", "i", "d">>)
        end_tzid == getTagValue(event, <<"e", "n", "d", "_", "t", "z", "i", "d">>)
    IN  IF event.kind \notin {KindDateBased, KindTimeBased} THEN FALSE
        ELSE IF ~Truthy(d) \/ ~Truthy(title) \/ ~Truthy(start) THEN FALSE
        ELSE IF event.kind = KindDateBased
        THEN IF ~dateRegexTest(start) THEN FALSE
             ELSE IF DateEndRejected(start, end) THEN FALSE
             ELSE TRUE
        ELSE IF isNaN(timestamp) \/ Val(timestamp) <= 0 THEN FALSE
        ELSE IF TimeEndRejected(timestamp, end) THEN FALSE
        ELSE IF Truthy(start_tzid) /\ ~isValidTimeZone(start_tzid) THEN FALSE
        ELSE IF Truthy(end_tzid) /\ ~isValidTimeZone(end_tzid) THEN FALSE
        ELSE TRUE

\* Mutant of validateCalendar: the title is not required.
validateCalendarTitleOptional(event) ==
    event.kind = KindCalendar /\ Truthy(getTagValue(event, <<"d">>))

validateCalendar(event) ==
    LET d == getTagValue(event, <<"d">>)
        title == getTagValue(event, <<"t", "i", "t", "l", "e">>)
    IN  IF event.kind # KindCalendar THEN FALSE
        ELSE Truthy(d) /\ Truthy(title)

\* Mutant of DeclinedWithFb: the fb tag is looked up by its value.
DeclinedWithFbValue(event, status) ==
    status = <<"d", "e", "c", "l", "i", "n", "e", "d">>
        /\ Truthy(getTagValue(event, <<"f", "b">>))

\* lines 101-105: a declined RSVP that carries an fb tag
DeclinedWithFb(event, status) ==
    status = <<"d", "e", "c", "l", "i", "n", "e", "d">> /\ FindTag(event.tags, <<"f", "b">>) # 0

\* Mutant of StatusAllowed: any status is let through.
StatusAllowedAny(status) == TRUE

\* line 99: the status is one of accepted, declined, tentative
StatusAllowed(status) ==
    status \in {<<"a", "c", "c", "e", "p", "t", "e", "d">>, <<"d", "e", "c", "l", "i", "n", "e", "d">>,
                <<"t", "e", "n", "t", "a", "t", "i", "v", "e">>}

\* validateCalendarEventRSVP returns a boolean or throws: "true", "false" or
\* "TypeError" (aValue.split on an a-tag without a second element).
validateCalendarEventRSVP(event) ==
    LET d == getTagValue(event, <<"d">>)
        status == getTagValue(event, <<"s", "t", "a", "t", "u", "s">>)
        aTag == FindTag(event.tags, <<"a">>)
        fbValue == getTagValue(event, <<"f", "b">>)
        aValue == TagAt(event.tags[aTag], 1)
        aParts == split(aValue, ":")
        kind == parseInt(aParts[1])
    IN  IF event.kind # KindRSVP THEN "false"
        ELSE IF ~Truthy(d) \/ ~Truthy(status) \/ aTag = 0 THEN "false"
        ELSE IF ~StatusAllowed(status) THEN "false"
        ELSE IF DeclinedWithFb(event, status) THEN "false"
        ELSE IF Truthy(fbValue) /\ fbValue \notin {<<"f", "r", "e", "e">>, <<"b", "u", "s", "y">>} THEN "false"
        ELSE IF aValue = Undefined THEN "TypeError"
        ELSE IF Len(aParts) < 3 THEN "false"
        ELSE IF isNaN(kind) \/ Val(kind) \notin {KindDateBased, KindTimeBased}
             THEN "false"
        ELSE "true"

(***************************************************************************)
(* Codec                                                                   *)
(***************************************************************************)
\* parseCalendarEvent's null: a record no calendar event equals.
Null == [kind |-> 0]

isDateBasedEvent(event) == event.kind = KindDateBased
isTimeBasedEvent(event) == event.kind = KindTimeBased

\* lines 306-312: one ParticipantInfo per p tag, read by position
ParticipantOfTag(tag) ==
    [pubkey |-> TagAt(tag, 1), relayUrl |-> TagAt(tag, 2), role |-> TagAt(tag, 3)]

RECURSIVE ParticipantsOfTags(_)
ParticipantsOfTags(tags) ==
    IF tags = <<>> THEN <<>>
    ELSE (IF TagIs(Head(tags), <<"p">>) THEN <<ParticipantOfTag(Head(tags))>> ELSE <<>>)
         \o ParticipantsOfTags(Tail(tags))

\* Mutant of ParsedEndTime: an end that fails to parse is kept as NaN.
ParsedEndTimeKeepNaN(endStr) ==
    IF Truthy(endStr) THEN parseInt(endStr) ELSE UndefinedNum

\* lines 351-358: end is kept when it parses to a number other than 0
ParsedEndTime(endStr) ==
    LET end == IF Truthy(endStr) THEN parseInt(endStr) ELSE UndefinedNum
    IN  IF IsNum(end) /\ Val(end) # 0 THEN end ELSE UndefinedNum

parseCalendarEvent(event) ==
    LET d == getTagValue(event, <<"d">>)
        title == getTagValue(event, <<"t", "i", "t", "l", "e">>)
        start == getTagValue(event, <<"s", "t", "a", "r", "t">>)
        baseEvent ==
            [id |-> event.id, pubkey |-> event.pubkey,
             created_at |-> event.created_at, content |-> event.content,
             tags |-> event.tags, d |-> d, title |-> title,
             summary |-> getTagValue(event, <<"s", "u", "m", "m", "a", "r", "y">>),
             image |-> getTagValue(event, <<"i", "m", "a", "g", "e">>),
             locations |-> getTagValues(event, <<"l", "o", "c", "a", "t", "i", "o", "n">>),
             geohash |-> getTagValue(event, <<"g">>),
             participants |-> ParticipantsOfTags(event.tags),
             hashtags |-> getTagValues(event, <<"t">>),
             references |-> getTagValues(event, <<"r">>),
             calendarRefs |-> getTagValues(event, <<"a">>)]
        startTime == parseInt(start)
    IN  IF event.kind # KindDateBased /\ event.kind # KindTimeBased THEN Null
        ELSE IF ~Truthy(d) \/ ~Truthy(title) \/ ~Truthy(start) THEN Null
        ELSE IF event.kind = KindDateBased
        THEN baseEvent @@ [kind |-> KindDateBased, start |-> start,
                           end |-> getTagValue(event, <<"e", "n", "d">>)]
        ELSE IF isNaN(startTime) THEN Null
        ELSE baseEvent @@ [kind |-> KindTimeBased, start |-> Val(startTime),
                           end |-> ParsedEndTime(getTagValue(event, <<"e", "n", "d">>)),
                           start_tzid |-> getTagValue(event, <<"s", "t", "a", "r", "t", "_", "t", "z", "i", "d">>),
                           end_tzid |-> getTagValue(event, <<"e", "n", "d", "_", "t", "z", "i", "d">>)]

\* tags.push([name, value]) for each value of a list
TagsOf(name, values) == [i \in 1..Len(values) |-> <<name, values[i]>>]

\* tags.push([name, value]) when the value is truthy
OptionalTag(name, value) == IF Truthy(value) THEN <<<<name, value>>>> ELSE <<>>

\* lines 386-391: the p tag of a participant
ParticipantTag(participant) ==
    <<<<"p">>, participant.pubkey>>
        \o (IF Truthy(participant.relayUrl) THEN <<participant.relayUrl>> ELSE <<>>)
        \o (IF Truthy(participant.role) THEN <<participant.role>> ELSE <<>>)

serializeCalendarEvent(event) ==
    LET common ==
            <<<<<<"d">>, event.d>>, <<<<"t", "i", "t", "l", "e">>, event.title>>>>
                \o OptionalTag(<<"s", "u", "m", "m", "a", "r", "y">>, event.summary)
                \o OptionalTag(<<"i", "m", "a", "g", "e">>, event.image)
                \o TagsOf(<<"l", "o", "c", "a", "t", "i", "o", "n">>, event.locations)
                \o OptionalTag(<<"g">>, event.geohash)
                \o [i \in 1..Len(event.participants) |->
                        ParticipantTag(event.participants[i])]
                \o TagsOf(<<"t">>, event.hashtags)
                \o TagsOf(<<"r">>, event.references)
                \o TagsOf(<<"a">>, event.calendarRefs)
    IN  IF isDateBasedEvent(event)
        THEN [kind |-> KindDateBased, content |-> event.content,
              tags |-> common \o <<<<<<"s", "t", "a", "r", "t">>, event.start>>>>
                              \o OptionalTag(<<"e", "n", "d">>, event.end)]
        ELSE [kind |-> KindTimeBased, content |-> event.content,
              tags |-> common \o <<<<<<"s", "t", "a", "r", "t">>, toString(event.start)>>>>
                              \o (IF event.end # UndefinedNum
                                  THEN <<<<<<"e", "n", "d">>, toString(Val(event.end))>>>>
                                  ELSE <<>>)
                              \o OptionalTag(<<"s", "t", "a", "r", "t", "_", "t", "z", "i", "d">>, event.start_tzid)
                              \o OptionalTag(<<"e", "n", "d", "_", "t", "z", "i", "d">>, event.end_tzid)]

\* Mutant of serializeCalendarRSVP: fb is emitted whenever freebusy is set.
serializeCalendarRSVPKeepFb(rsvp) ==
    [kind |-> KindRSVP, content |-> rsvp.content,
     tags |-> <<<<<<"a">>, rsvp.eventCoordinates>>, <<<<"d">>, rsvp.d>>,
                <<<<"s", "t", "a", "t", "u", "s">>, rsvp.status>>>>
              \o OptionalTag(<<"e">>, rsvp.eventId)
              \o OptionalTag(<<"f", "b">>, rsvp.freebusy)
              \o OptionalTag(<<"p">>, rsvp.authorPubkey)]

\* lines 429-445
serializeCalendarRSVP(rsvp) ==
    [kind |-> KindRSVP, content |-> rsvp.content,
     tags |-> <<<<<<"a">>, rsvp.eventCoordinates>>, <<<<"d">>, rsvp.d>>,
                <<<<"s", "t", "a", "t", "u", "s">>, rsvp.status>>>>
              \o OptionalTag(<<"e">>, rsvp.eventId)
              \o (IF Truthy(rsvp.freebusy) /\ rsvp.status # <<"d", "e", "c", "l", "i", "n", "e", "d">>
                  THEN <<<<<<"f", "b">>, rsvp.freebusy>>>> ELSE <<>>)
              \o OptionalTag(<<"p">>, rsvp.authorPubkey)]

(***************************************************************************)
(* Dates                                                                   *)
(***************************************************************************)
SecondsPerDay == 86400

Pad(n, width) ==
    LET s == NatToString(n)
    IN  [i \in 1..(width - Len(s)) |-> "0"] \o s

\* date.toISOString().split('T')[0] of the Date at `seconds` after the epoch:
\* the UTC calendar day, as YYYY-MM-DD.
IsoDateOf(seconds) ==
    LET z == (seconds \div SecondsPerDay) + 719468
        era == z \div 146097
        doe == z - era * 146097
        yoe == (doe - doe \div 1460 + doe \div 36524 - doe \div 146096) \div 365
        doy == doe - (365 * yoe + yoe \div 4 - yoe \div 100)
        mp == (5 * doy + 2) \div 153
        day == doy - (153 * mp + 2) \div 5 + 1
        month == IF mp < 10 THEN mp + 3 ELSE mp - 9
        year == yoe + era * 400 + (IF month <= 2 THEN 1 ELSE 0)
    IN  Pad(year, 4) \o <<"-">> \o Pad(month, 2) \o <<"-">> \o Pad(day, 2)

\* new Date(s).getTime() / 1000 for a string that matches YYYY-MM-DD: midnight
\* UTC of that day; NaN when the month is not 1..12 or the day not 1..31 (a day
\* past the end of its month rolls over into the next month).
DateToTimestamp(s) ==
    LET year == AccDigits(SubSeq(s, 1, 4), 10, 0)
        month == AccDigits(SubSeq(s, 6, 7), 10, 0)
        day == AccDigits(SubSeq(s, 9, 10), 10, 0)
        y == IF month <= 2 THEN year - 1 ELSE year
        era == y \div 400
        yoe == y - era * 400
        doy == (153 * (IF month > 2 THEN month - 3 ELSE month + 9) + 2) \div 5
                   + day - 1
        doe == yoe * 365 + yoe \div 4 - yoe \div 100 + doy
    IN  IF month \notin 1..12 \/ day \notin 1..31 THEN NaN
        ELSE Num((era * 146097 + doe - 719468) * SecondsPerDay)

\* a.localeCompare(b) on date strings: negative, zero or positive
localeCompare(a, b) == IF a = b THEN 0 ELSE IF StrLess(a, b) THEN -1 ELSE 1

(***************************************************************************)
(* The collaborator: nostr.query on a relay that holds `content`, newest   *)
(* first.  A filter names kinds and, when set, ids, a hashtag, until and   *)
(* limit.                                                                  *)
(***************************************************************************)
NoIds == {}
NoHashtag == Undefined

Filter(kinds, ids, hashtag, until, limit) ==
    [kinds |-> kinds, ids |-> ids, hashtag |-> hashtag, until |-> until,
     limit |-> limit]

Matches(event, filter) ==
    /\ event.kind \in filter.kinds
    /\ filter.ids = NoIds \/ event.id \in filter.ids
    /\ filter.hashtag = NoHashtag
          \/ \E i \in 1..Len(event.tags) :
                 /\ TagIs(event.tags[i], <<"t">>)
                 /\ TagAt(event.tags[i], 1) = filter.hashtag
    /\ filter.until = UndefinedNum \/ event.created_at <= Val(filter.until)

RECURSIVE SelectMatching(_, _)
SelectMatching(content, filter) ==
    IF content = <<>> THEN <<>>
    ELSE (IF Matches(Head(content), filter) THEN <<Head(content)>> ELSE <<>>)
         \o SelectMatching(Tail(content), filter)

query(content, filter) ==
    LET matching == SelectMatching(content, filter)
    IN  IF filter.limit # UndefinedNum /\ Len(matching) > Val(filter.limit)
        THEN Take(matching, Val(filter.limit))
        ELSE matching

(***************************************************************************)
(* Query hooks                                                             *)
(***************************************************************************)
Front(s) == SubSeq(s, 1, Len(s) - 1)
Last(s) == s[Len(s)]

\* Mutant of ValidParsed: the events are parsed without being validated.
RECURSIVE ValidParsedUnchecked(_)
ValidParsedUnchecked(events) ==
    IF events = <<>> THEN <<>>
    ELSE LET parsed == parseCalendarEvent(Head(events))
         IN  (IF parsed # Null THEN <<parsed>> ELSE <<>>)
             \o ValidParsedUnchecked(Tail(events))

\* events.filter(validateCalendarEvent).map(parseCalendarEvent)
\*       .filter(event => event !== null)
RECURSIVE ValidParsed(_)
ValidParsed(events) ==
    IF events = <<>> THEN <<>>
    ELSE LET event == Head(events)
             parsed == parseCalendarEvent(event)
         IN  (IF validateCalendarEvent(event) /\ parsed # Null
              THEN <<parsed>> ELSE <<>>)
             \o ValidParsed(Tail(events))

\* lines 28-42: the comparator of the recent query
compareRecent(a, b) ==
    IF a.kind = KindDateBased /\ b.kind = KindDateBased
    THEN localeCompare(a.start, b.start)
    ELSE IF a.kind = KindTimeBased /\ b.kind = KindTimeBased
    THEN a.start - b.start
    ELSE a.created_at - b.created_at

\* lines 109-132: the comparator of the upcoming query (a NaN result, from a
\* date that new Date cannot read, orders nothing: sort takes it as 0)
compareUpcoming(a, b) ==
    IF a.kind = KindTimeBased /\ b.kind = KindTimeBased
    THEN a.start - b.start
    ELSE IF a.kind = KindDateBased /\ b.kind = KindDateBased
    THEN localeCompare(a.start, b.start)
    ELSE IF a.kind = KindDateBased /\ b.kind = KindTimeBased
    THEN LET aDate == DateToTimestamp(a.start)
         IN  IF isNaN(aDate) THEN 0 ELSE Val(aDate) - b.start
    ELSE IF a.kind = KindTimeBased /\ b.kind = KindDateBased
    THEN LET bDate == DateToTimestamp(b.start)
         IN  IF isNaN(bDate) THEN 0 ELSE a.start - Val(bDate)
    ELSE 0

compare(which, a, b) ==
    IF which = "recent" THEN compareRecent(a, b) ELSE compareUpcoming(a, b)

\* Array.prototype.sort: stable; each element is inserted behind the last
\* element of the sorted prefix that the comparator does not put after it.
RECURSIVE Insert(_, _, _)
Insert(which, sorted, x) ==
    IF sorted = <<>> THEN <<x>>
    ELSE IF compare(which, Last(sorted), x) > 0
    THEN Append(Insert(which, Front(sorted), x), Last(sorted))
    ELSE Append(sorted, x)

RECURSIVE sort(_, _)
sort(which, events) ==
    IF events = <<>> THEN <<>>
    ELSE Insert(which, sort(which, Front(events)), Last(events))

\* useRecentCalendarEvents: lines 18-21, the filter; lines 24-42, the result
RecentFilter(limit) ==
    Filter({KindDateBased, KindTimeBased}, NoIds, NoHashtag, UndefinedNum,
           Num(limit))
RecentResult(events) == sort("recent", ValidParsed(events))

\* useUpcomingCalendarEvents: lines 59-87, the two filters (until is set only
\* when pageParam is truthy: neither undefined nor 0)
UpcomingFilter(kind, cursor, limit) ==
    Filter({kind}, NoIds, NoHashtag,
           IF cursor # UndefinedNum /\ Val(cursor) # 0 THEN cursor
           ELSE UndefinedNum,
           Num(limit))

\* Mutant of IsUpcoming: a time-based event that starts at now is kept.
IsUpcomingOrNow(event, nowSeconds) ==
    IF event.kind = KindTimeBased THEN event.start >= nowSeconds
    ELSE IF event.kind = KindDateBased
    THEN StrLeq(IsoDateOf(nowSeconds), event.start)
    ELSE FALSE

\* lines 95-108: the event starts after now (time-based) or today or later
IsUpcoming(event, nowSeconds) ==
    IF event.kind = KindTimeBased THEN event.start > nowSeconds
    ELSE IF event.kind = KindDateBased
    THEN StrLeq(IsoDateOf(nowSeconds), event.start)
    ELSE FALSE

RECURSIVE SelectUpcoming(_, _)
SelectUpcoming(events, nowSeconds) ==
    IF events = <<>> THEN <<>>
    ELSE (IF IsUpcoming(Head(events), nowSeconds) THEN <<Head(events)>> ELSE <<>>)
         \o SelectUpcoming(Tail(events), nowSeconds)

\* lines 90-134: the page computed from the two responses
UpcomingResult(timeBasedEvents, dateBasedEvents, nowSeconds) ==
    sort("upcoming",
         SelectUpcoming(ValidParsed(timeBasedEvents \o dateBasedEvents),
                        nowSeconds))

\* lines 136-139
getNextPageParam(lastPage) ==
    IF Len(lastPage) = 0 THEN UndefinedNum
    ELSE Num(Last(lastPage).created_at - 1)

\* useCalendarEventsByDateRange: lines 161-170, the two filters
RangeFilter(kind) == Filter({kind}, NoIds, NoHashtag, UndefinedNum, Num(100))

\* lines 181-196: the event overlaps the range; a Date is given by its seconds
InRange(event, startDate, endDate) ==
    LET startIsoDate == IsoDateOf(startDate)
        endIsoDate == IsoDateOf(endDate)
        startTimestamp == startDate
        endTimestamp == endDate
    IN  IF event.kind = KindTimeBased
        THEN IF event.end # UndefinedNum /\ Val(event.end) # 0
             THEN event.start <= endTimestamp /\ Val(event.end) >= startTimestamp
             ELSE event.start >= startTimestamp /\ event.start <= endTimestamp
        ELSE IF event.kind = KindDateBased
        THEN IF Truthy(event.end)
             THEN StrLeq(event.start, endIsoDate) /\ StrLeq(startIsoDate, event.end)
             ELSE StrLeq(startIsoDate, event.start) /\ StrLeq(event.start, endIsoDate)
        ELSE FALSE

RECURSIVE SelectInRange(_, _, _)
SelectInRange(events, startDate, endDate) ==
    IF events = <<>> THEN <<>>
    ELSE (IF InRange(Head(events), startDate, endDate)
          THEN <<Head(events)>> ELSE <<>>)
         \o SelectInRange(Tail(events), startDate, endDate)

\* lines 172-199
ByDateRangeResult(timeBasedEvents, dateBasedEvents, startDate, endDate) ==
    SelectInRange(ValidParsed(timeBasedEvents \o dateBasedEvents),
                  startDate, endDate)

\* useCalendarEventSearch: line 210
normalizeQuery(q) == toLowerCase(trim(q))

\* Mutant of HashtagFilter: the hashtag keeps its leading "#".
HashtagFilterKeepHash(normalizedQuery, limit) ==
    Filter({KindDateBased, KindTimeBased}, NoIds, normalizedQuery,
           UndefinedNum, Num(limit))

\* lines 222-227 and 236-239: the two filters
HashtagFilter(normalizedQuery, limit) ==
    Filter({KindDateBased, KindTimeBased}, NoIds, Drop(normalizedQuery, 1),
           UndefinedNum, Num(limit))
BroadFilter(limit) ==
    Filter({KindDateBased, KindTimeBased}, NoIds, NoHashtag, UndefinedNum,
           Num(IF limit * 2 > 100 THEN limit * 2 ELSE 100))

\* event.locations.some(loc => loc.toLowerCase().includes(q)): "true", "false",
\* or "TypeError" when a location without a value is reached before a match
RECURSIVE SomeLocation(_, _)
SomeLocation(locations, q) ==
    IF locations = <<>> THEN "false"
    ELSE IF Head(locations) = Undefined THEN "TypeError"
    ELSE IF includes(toLowerCase(Head(locations)), q) THEN "true"
    ELSE SomeLocation(Tail(locations), q)

\* lines 244-260: the client-side match of one parsed event
TextMatch(event, q) ==
    IF includes(toLowerCase(event.title), q) THEN "true"
    ELSE IF includes(toLowerCase(event.content), q) THEN "true"
    ELSE IF event.summary # Undefined /\ includes(toLowerCase(event.summary), q)
    THEN "true"
    ELSE SomeLocation(event.locations, q)

RECURSIVE SelectTextMatch(_, _)
SelectTextMatch(events, q) ==
    IF events = <<>> THEN <<>>
    ELSE (IF TextMatch(Head(events), q) = "true" THEN <<Head(events)>> ELSE <<>>)
         \o SelectTextMatch(Tail(events), q)

\* lines 241-260: the client-side matches, and whether the filter throws
ClientMatched(allEvents, q) == SelectTextMatch(ValidParsed(allEvents), q)
ClientMatchThrows(allEvents, q) ==
    LET parsed == ValidParsed(allEvents)
    IN  \E i \in 1..Len(parsed) : TextMatch(parsed[i], q) = "TypeError"

\* Mutant of UniqueById: every entry is kept.
UniqueByIdKeepAll(events) == events

\* Array.from(new Map(events.map(e => [e.id, e])).values()): one entry per id,
\* at the place of the id's first occurrence, holding its last occurrence
RECURSIVE UniqueById(_)
UniqueById(events) ==
    IF events = <<>> THEN <<>>
    ELSE LET rest == UniqueById(Front(events))
             e == Last(events)
         IN  IF \E i \in 1..Len(rest) : rest[i].id = e.id
             THEN [i \in 1..Len(rest) |-> IF rest[i].id = e.id THEN e ELSE rest[i]]
             ELSE Append(rest, e)

\* Mutant of UniqueByIdOrigins: a repeated id moves to the place of its last
\* occurrence.
RECURSIVE UniqueByIdOriginsMoveLast(_)
UniqueByIdOriginsMoveLast(events) ==
    IF events = <<>> THEN <<>>
    ELSE LET rest == UniqueByIdOriginsMoveLast(Front(events))
             e == Last(events)
         IN  SelectSeq(rest, LAMBDA o : events[o].id # e.id) \o <<Len(events)>>

\* The same Map, by object: for each entry of the result, the index in
\* `events` of the object it holds.  Map.set on a key the map has keeps the
\* key's place and replaces its value.
RECURSIVE UniqueByIdOrigins(_)
UniqueByIdOrigins(events) ==
    IF events = <<>> THEN <<>>
    ELSE LET rest == UniqueByIdOrigins(Front(events))
             e == Last(events)
         IN  IF \E i \in 1..Len(rest) : events[rest[i]].id = e.id
             THEN [i \in 1..Len(rest) |->
                      IF events[rest[i]].id = e.id THEN Len(events) ELSE rest[i]]
             ELSE Append(rest, Len(events))

\* lines 262-268: the objects the result holds, as indices in combinedEvents
SearchOrigins(hashtagResponse, allEvents, q) ==
    UniqueByIdOrigins(ValidParsed(hashtagResponse) \o ClientMatched(allEvents, q))

\* lines 262-268
SearchResult(hashtagResponse, allEvents, q) ==
    UniqueById(ValidParsed(hashtagResponse) \o ClientMatched(allEvents, q))

\* useCalendarEvent: lines 287-290, the filter; lines 292-297, the result
EventFilter(id) ==
    Filter({KindDateBased, KindTimeBased}, {id}, NoHashtag, UndefinedNum,
           UndefinedNum)
EventResult(events) ==
    IF Len(events) = 0 THEN Null
    ELSE IF ~validateCalendarEvent(events[1]) THEN Null
    ELSE parseCalendarEvent(events[1])

(***************************************************************************)
(* Inputs of the pure functions                                            *)
(***************************************************************************)
\* Every way of taking one option per slot and concatenating them in order.
RECURSIVE Combine(_)
Combine(slots) ==
    IF slots = <<>> THEN {<<>>}
    ELSE {h \o t : h \in Head(slots), t \in Combine(Tail(slots))}

None == <<>>
One(name, value) == <<<<name, value>>>>
Bare(name) == <<<<name>>>>

DSlot == {None, One(<<"d">>, <<"a", "b", "c">>), One(<<"d">>, <<>>), Bare(<<"d">>)}
TitleSlot == {None, One(<<"t", "i", "t", "l", "e">>, <<"M", "e", "e", "t", "u", "p">>), One(<<"t", "i", "t", "l", "e">>, <<>>)}

DateStartSlot ==
    {None, One(<<"s", "t", "a", "r", "t">>, <<"2", "0", "2", "5", "-", "0", "6", "-", "0", "1">>), One(<<"s", "t", "a", "r", "t">>, <<"2", "0", "2", "5", "-", "0", "6", "-", "0", "3">>),
     One(<<"s", "t", "a", "r", "t">>, <<"2", "0", "2", "5", "-", "6", "-", "1">>), One(<<"s", "t", "a", "r", "t">>, <<>>)}
DateEndSlot ==
    {None, One(<<"e", "n", "d">>, <<"2", "0", "2", "5", "-", "0", "6", "-", "0", "3">>), One(<<"e", "n", "d">>, <<"2", "0", "2", "5", "-", "0", "6", "-", "0", "1">>),
     One(<<"e", "n", "d">>, <<"2", "0", "2", "5", "-", "0", "5", "-", "3", "0">>), One(<<"e", "n", "d">>, <<"2", "0", "2", "5", "-", "6", "-", "3", "0">>),
     One(<<"e", "n", "d">>, <<>>), Bare(<<"e", "n", "d">>)}

TimeStartSlot ==
    {None, One(<<"s", "t", "a", "r", "t">>, <<"1", "7", "1", "7", "2", "0", "0", "0", "0", "0">>), One(<<"s", "t", "a", "r", "t">>, <<"1", "7", "1", "7", "2", "0", "3", "6", "0", "0">>),
     One(<<"s", "t", "a", "r", "t">>, <<"0">>), One(<<"s", "t", "a", "r", "t">>, <<"-", "5">>), One(<<"s", "t", "a", "r", "t">>, <<"a", "b", "c">>),
     One(<<"s", "t", "a", "r", "t">>, <<"0", "x", "1", "0">>), One(<<"s", "t", "a", "r", "t">>, <<"1", "2", "a", "b", "c">>), One(<<"s", "t", "a", "r", "t">>, <<>>)}
TimeEndSlot ==
    {None, One(<<"e", "n", "d">>, <<"1", "7", "1", "7", "2", "0", "0", "0", "0", "0">>), One(<<"e", "n", "d">>, <<"1", "7", "1", "7", "2", "0", "3", "6", "0", "0">>),
     One(<<"e", "n", "d">>, <<"1", "7", "1", "7", "1", "0", "0", "0", "0", "0">>), One(<<"e", "n", "d">>, <<"0">>), One(<<"e", "n", "d">>, <<"a", "b", "c">>),
     One(<<"e", "n", "d">>, <<"2", "0">>), One(<<"e", "n", "d">>, <<>>), Bare(<<"e", "n", "d">>)}
TzSlot ==
    {None, One(<<"s", "t", "a", "r", "t", "_", "t", "z", "i", "d">>, <<"U", "T", "C">>), One(<<"s", "t", "a", "r", "t", "_", "t", "z", "i", "d">>, <<"M", "a", "r", "s", "/", "B", "a", "s", "e">>),
     One(<<"e", "n", "d", "_", "t", "z", "i", "d">>, <<"E", "u", "r", "o", "p", "e", "/", "B", "e", "r", "l", "i", "n">>), One(<<"e", "n", "d", "_", "t", "z", "i", "d">>, <<"M", "a", "r", "s", "/", "B", "a", "s", "e">>)}

CalendarEventTagLists ==
    Combine(<<DSlot, TitleSlot, DateStartSlot, DateEndSlot>>)
        \cup Combine(<<DSlot, TitleSlot, TimeStartSlot, TimeEndSlot, TzSlot>>)

ASlot ==
    {None, Bare(<<"a">>), One(<<"a">>, <<"3", "1", "9", "2", "3", ":", "p", "u", "b", "1", ":", "e", "v", "1">>), One(<<"a">>, <<"3", "1", "9", "2", "2", ":", "p", "u", "b", "1", ":", "e", "v", "1">>),
     One(<<"a">>, <<"3", "1", "9", "2", "4", ":", "p", "u", "b", "1", ":", "e", "v", "1">>), One(<<"a">>, <<"3", "1", "9", "2", "3", ":", "p", "u", "b", "1">>),
     One(<<"a">>, <<"x", ":", "p", "u", "b", "1", ":", "e", "v", "1">>), One(<<"a">>, <<>>),
     One(<<"a">>, <<"3", "1", "9", "2", "3", "x", ":", "p", "u", "b", "1", ":", "e", "v", "1">>)}
RsvpDSlot == {None, One(<<"d">>, <<"r", "1">>), One(<<"d">>, <<>>)}
StatusSlot ==
    {None, One(<<"s", "t", "a", "t", "u", "s">>, <<"a", "c", "c", "e", "p", "t", "e", "d">>), One(<<"s", "t", "a", "t", "u", "s">>, <<"d", "e", "c", "l", "i", "n", "e", "d">>),
     One(<<"s", "t", "a", "t", "u", "s">>, <<"t", "e", "n", "t", "a", "t", "i", "v", "e">>), One(<<"s", "t", "a", "t", "u", "s">>, <<"m", "a", "y", "b", "e">>), Bare(<<"s", "t", "a", "t", "u", "s">>)}
FbSlot ==
    {None, One(<<"f", "b">>, <<"f", "r", "e", "e">>), One(<<"f", "b">>, <<"b", "u", "s", "y">>), One(<<"f", "b">>, <<"l", "a", "t", "e", "r">>),
     One(<<"f", "b">>, <<>>), Bare(<<"f", "b">>)}

RsvpTagLists == Combine(<<ASlot, RsvpDSlot, StatusSlot, FbSlot>>)

ValidatorInputs ==
    {RawEvent("e1", "pk1", kind, 1717000000, <<"n", "o", "t", "e">>, tags) :
        kind \in {KindDateBased, KindTimeBased, KindCalendar},
        tags \in CalendarEventTagLists}
    \cup
    {RawEvent("e1", "pk1", kind, 1717000000, <<"n", "o", "t", "e">>, tags) :
        kind \in {KindRSVP, KindTimeBased}, tags \in RsvpTagLists}

(***************************************************************************)
(* Specifications                                                          *)
(***************************************************************************)
Idle == [op |-> "idle"]

PaginationIdle ==
    /\ pageParam = UndefinedNum
    /\ hasNextPage = FALSE
    /\ page = <<>>
    /\ seen = {}
    /\ fetched = FALSE
    /\ responses = <<>>
    /\ isFetchingNextPage = FALSE

(***************************************************************************)
(* The validators, applied to a raw event drawn at the start.              *)
(***************************************************************************)
InitValidator ==
    /\ input \in ValidatorInputs
    /\ call = Idle
    /\ relay = <<>>
    /\ now = 0
    /\ PaginationIdle

ValidateCalendarEvent ==
    /\ call' = [op |-> "validateCalendarEvent",
                result |-> validateCalendarEvent(input)]
    /\ UNCHANGED <<relay, now, input, pageParam, hasNextPage, page, seen, fetched,
                 responses, isFetchingNextPage>>

ValidateCalendar ==
    /\ call' = [op |-> "validateCalendar", result |-> validateCalendar(input)]
    /\ UNCHANGED <<relay, now, input, pageParam, hasNextPage, page, seen, fetched,
                 responses, isFetchingNextPage>>

ValidateCalendarEventRSVP ==
    /\ call' = [op |-> "validateCalendarEventRSVP",
                result |-> validateCalendarEventRSVP(input)]
    /\ UNCHANGED <<relay, now, input, pageParam, hasNextPage, page, seen, fetched,
                 responses, isFetchingNextPage>>

NextValidator ==
    \/ ValidateCalendarEvent
    \/ ValidateCalendar
    \/ ValidateCalendarEventRSVP

SpecValidator == InitValidator /\ [][NextValidator]_vars

(***************************************************************************)
(* The codec, applied to a domain event drawn at the start.                *)
(***************************************************************************)
Participant(pubkey, relayUrl, role) ==
    [pubkey |-> pubkey, relayUrl |-> relayUrl, role |-> role]

ParticipantLists ==
    {<<>>,
     <<Participant(<<"p", "k", "2">>, <<"w", "s", "s", ":", "/", "/", "r">>, <<"h", "o", "s", "t">>)>>,
     <<Participant(<<"p", "k", "2">>, <<"w", "s", "s", ":", "/", "/", "r">>, Undefined)>>,
     <<Participant(<<"p", "k", "2">>, Undefined, <<"h", "o", "s", "t">>)>>,
     <<Participant(<<"p", "k", "2">>, Undefined, Undefined)>>,
     <<Participant(<<"p", "k", "2">>, <<"w", "s", "s", ":", "/", "/", "r">>, <<"h", "o", "s", "t">>),
       Participant(<<"p", "k", "3">>, Undefined, Undefined)>>}

\* The fields both kinds share; `tags` is filled in by WithOwnTags.
BaseInputs ==
    {[id |-> "e1", pubkey |-> "pk1", created_at |-> 1717000000,
      content |-> <<"n", "o", "t", "e">>, tags |-> <<>>, d |-> <<"a", "b", "c">>, title |-> <<"M", "e", "e", "t", "u", "p">>,
      summary |-> summary, image |-> Undefined, locations |-> locations,
      geohash |-> geohash, participants |-> participants,
      hashtags |-> hashtags, references |-> <<>>, calendarRefs |-> calendarRefs] :
        summary \in {Undefined, <<"S", "u", "m">>},
        locations \in {<<>>, <<<<"B", "e", "r", "l", "i", "n">>>>, <<<<"B", "e", "r", "l", "i", "n">>, <<"O", "n", "l", "i", "n", "e">>>>},
        geohash \in {Undefined, <<"u", "3", "3">>},
        participants \in ParticipantLists,
        hashtags \in {<<>>, <<<<"m", "u", "s", "i", "c">>>>},
        calendarRefs \in {<<>>, <<<<"3", "1", "9", "2", "4", ":", "p", "k", "1", ":", "c", "a", "l">>>>}}

DateInputs ==
    {b @@ [kind |-> KindDateBased, start |-> se[1], end |-> se[2]] :
        b \in BaseInputs,
        se \in {<<<<"2", "0", "2", "5", "-", "0", "6", "-", "0", "1">>, Undefined>>, <<<<"2", "0", "2", "5", "-", "0", "6", "-", "0", "1">>, <<"2", "0", "2", "5", "-", "0", "6", "-", "0", "3">>>>,
                <<<<"2", "0", "2", "5", "-", "0", "6", "-", "0", "1">>, <<"2", "0", "2", "5", "-", "0", "5", "-", "3", "0">>>>}}

TimeInputs ==
    {b @@ [kind |-> KindTimeBased, start |-> se[1], end |-> se[2],
           start_tzid |-> tz[1], end_tzid |-> tz[2]] :
        b \in BaseInputs,
        se \in {<<1717200000, UndefinedNum>>, <<1717200000, Num(1717203600)>>,
                <<1717200000, Num(1717200000)>>},
        tz \in {<<Undefined, Undefined>>, <<<<"U", "T", "C">>, <<"E", "u", "r", "o", "p", "e", "/", "B", "e", "r", "l", "i", "n">>>>}}

\* serializeCalendarEvent(e) merged with e's id, pubkey and created_at
Merged(partial, e) ==
    RawEvent(e.id, e.pubkey, partial.kind, e.created_at, partial.content,
             partial.tags)

\* A domain event as parseCalendarEvent leaves it: `tags` holds the wire tags.
WithOwnTags(e) == [e EXCEPT !.tags = serializeCalendarEvent(e).tags]

CodecInputs == {WithOwnTags(e) : e \in DateInputs \cup TimeInputs}

InitCodec ==
    /\ input \in CodecInputs
    /\ call = Idle
    /\ relay = <<>>
    /\ now = 0
    /\ PaginationIdle

SerializeCalendarEvent ==
    /\ call' = [op |-> "serializeCalendarEvent",
                result |-> serializeCalendarEvent(input)]
    /\ UNCHANGED <<relay, now, input, pageParam, hasNextPage, page, seen, fetched,
                 responses, isFetchingNextPage>>

RoundTrip ==
    /\ call' = [op |-> "roundTrip",
                result |-> parseCalendarEvent(
                               Merged(serializeCalendarEvent(input), input))]
    /\ UNCHANGED <<relay, now, input, pageParam, hasNextPage, page, seen, fetched,
                 responses, isFetchingNextPage>>

NextCodec ==
    \/ SerializeCalendarEvent
    \/ RoundTrip

SpecCodec == InitCodec /\ [][NextCodec]_vars

\* C3: for every domain calendar event e that satisfies the Validator's
\* rules, parseCalendarEvent applied to serializeCalendarEvent(e) merged with
\* e's id, pubkey and created_at returns an object equal to e in every field.
C3_RoundTrip ==
    ( /\ call.op = "roundTrip"
      /\ validateCalendarEvent(Merged(serializeCalendarEvent(input), input)) )
    => call.result = input

(***************************************************************************)
(* Relay contents                                                          *)
(***************************************************************************)
\* The events a relay may hold, newest first.  With now at noon of
\* 2025-06-01: a time-based event that starts later that day, one that has
\* passed, one far ahead; date-based events today and next month; an event
\* the validator rejects but the parser reads (end = start), one without a
\* title, and a valid one whose location tag has no value.
Pool ==
    <<RawEvent("loc_bare", "pk1", KindTimeBased, 5, <<"t", "a", "l", "k">>,
               <<<<<<"d">>, <<"e", "8">>>>, <<<<"t", "i", "t", "l", "e">>, <<"T", "a", "l", "k">>>>, <<<<"l", "o", "c", "a", "t", "i", "o", "n">>>>,
                 <<<<"s", "t", "a", "r", "t">>, <<"1", "7", "4", "8", "9", "0", "0", "0", "0", "0">>>>>>),
      RawEvent("d_future", "pk2", KindDateBased, 4, <<"b", "r", "i", "n", "g", " ", "f", "o", "o", "d">>,
               <<<<<<"d">>, <<"e", "4">>>>, <<<<"t", "i", "t", "l", "e">>, <<"P", "i", "c", "n", "i", "c">>>>,
                 <<<<"s", "u", "m", "m", "a", "r", "y">>, <<"M", "u", "s", "i", "c", " ", "i", "n", " ", "t", "h", "e", " ", "p", "a", "r", "k">>>>,
                 <<<<"s", "t", "a", "r", "t">>, <<"2", "0", "2", "5", "-", "0", "7", "-", "0", "1">>>>>>),
      RawEvent("t_soon", "pk1", KindTimeBased, 3, <<"j", "o", "i", "n", " ", "#", "m", "u", "s", "i", "c", " ", "n", "i", "g", "h", "t">>,
               <<<<<<"d">>, <<"e", "1">>>>, <<<<"t", "i", "t", "l", "e">>, <<"J", "a", "m">>>>,
                 <<<<"l", "o", "c", "a", "t", "i", "o", "n">>, <<"B", "e", "r", "l", "i", "n">>>>, <<<<"t">>, <<"m", "u", "s", "i", "c">>>>,
                 <<<<"s", "t", "a", "r", "t">>, <<"1", "7", "4", "8", "8", "0", "0", "0", "0", "0">>>>, <<<<"e", "n", "d">>, <<"1", "7", "4", "8", "8", "0", "3", "6", "0", "0">>>>>>),
      RawEvent("no_title", "pk3", KindTimeBased, 3, <<"m", "u", "s", "i", "c">>,
               <<<<<<"d">>, <<"e", "7">>>>, <<<<"t">>, <<"m", "u", "s", "i", "c">>>>,
                 <<<<"s", "t", "a", "r", "t">>, <<"1", "7", "4", "8", "8", "0", "0", "0", "0", "0">>>>>>),
      RawEvent("t_past", "pk2", KindTimeBased, 2, <<"w", "a", "s", " ", "f", "u", "n">>,
               <<<<<<"d">>, <<"e", "2">>>>, <<<<"t", "i", "t", "l", "e">>, <<"O", "l", "d", " ", "M", "e", "e", "t", "u", "p">>>>,
                 <<<<"s", "t", "a", "r", "t">>, <<"1", "7", "4", "8", "7", "0", "0", "0", "0", "0">>>>>>),
      RawEvent("bad_end", "pk3", KindDateBased, 2, <<"m", "u", "s", "i", "c">>,
               <<<<<<"d">>, <<"e", "6">>>>, <<<<"t", "i", "t", "l", "e">>, <<"B", "r", "o", "k", "e", "n">>>>, <<<<"t">>, <<"m", "u", "s", "i", "c">>>>,
                 <<<<"s", "t", "a", "r", "t">>, <<"2", "0", "2", "5", "-", "0", "6", "-", "1", "0">>>>, <<<<"e", "n", "d">>, <<"2", "0", "2", "5", "-", "0", "6", "-", "1", "0">>>>>>),
      RawEvent("d_today", "pk1", KindDateBased, 1, <<"a", "l", "l", " ", "d", "a", "y">>,
               <<<<<<"d">>, <<"e", "3">>>>, <<<<"t", "i", "t", "l", "e">>, <<"F", "a", "i", "r">>>>, <<<<"t">>, <<"m", "u", "s", "i", "c">>>>,
                 <<<<"s", "t", "a", "r", "t">>, <<"2", "0", "2", "5", "-", "0", "6", "-", "0", "1">>>>, <<<<"e", "n", "d">>, <<"2", "0", "2", "5", "-", "0", "6", "-", "0", "3">>>>>>),
      RawEvent("t_later", "pk2", KindTimeBased, 1, <<"s", "a", "v", "e", " ", "t", "h", "e", " ", "d", "a", "t", "e">>,
               <<<<<<"d">>, <<"e", "5">>>>, <<<<"t", "i", "t", "l", "e">>, <<"C", "o", "n", "c", "e", "r", "t">>>>,
                 <<<<"s", "t", "a", "r", "t">>, <<"1", "7", "5", "0", "0", "0", "0", "0", "0", "0">>>>>>)>>

\* The most events a relay holds.
MaxRelayEvents == 3

RECURSIVE Pick(_, _)
Pick(events, chosen) ==
    IF events = <<>> THEN <<>>
    ELSE (IF Len(events) \in chosen THEN <<Last(events)>> ELSE <<>>)
         \o Pick(Front(events), chosen)

RECURSIVE Reverse(_)
Reverse(s) == IF s = <<>> THEN <<>> ELSE Append(Reverse(Tail(s)), Head(s))

\* Every choice of at most MaxRelayEvents events of the pool, newest first.
RelayContents ==
    {Reverse(Pick(Pool, chosen)) :
        chosen \in {c \in SUBSET (1..Len(Pool)) : Cardinality(c) <= MaxRelayEvents}}

\* Date.now() / 1000: noon of 2025-06-01, and the second t_soon starts.
NowValues == {1748779200, 1748800000}

\* The hooks' limit argument.
Limits == {1, 2, 20}

Ids(events) == {events[i].id : i \in 1..Len(events)}

(***************************************************************************)
(* The upcoming query under useInfiniteQuery: the first page is fetched    *)
(* with no cursor, each later one with the cursor getNextPageParam gave.   *)
(***************************************************************************)
\* queryFn({pageParam}), lines 55-135
UpcomingPage(content, nowSeconds, limit, cursor) ==
    UpcomingResult(
        query(content, UpcomingFilter(KindTimeBased, cursor, limit)),
        query(content, UpcomingFilter(KindDateBased, cursor, limit)),
        nowSeconds)

\* The cursors getNextPageParam can give for a relay content, and undefined.
Cursors(content) ==
    {UndefinedNum} \cup {Num(content[i].created_at - 1) : i \in 1..Len(content)}

\* The relay content, the clock and the limit stay as they are while the
\* pages are chained, so queryFn is a function of the cursor alone.
InitUpcoming ==
    /\ relay \in RelayContents
    /\ now \in NowValues
    /\ input \in [limit : Limits]
    /\ call = Idle
    /\ pageParam = UndefinedNum
    /\ hasNextPage = FALSE
    /\ page = <<>>
    /\ seen = {}
    /\ fetched = FALSE
    /\ isFetchingNextPage = FALSE
    /\ responses = [cursor \in Cursors(relay) |->
                        UpcomingPage(relay, now, input.limit, cursor)]

FetchFirstPage ==
    /\ ~fetched
    /\ fetched' = TRUE
    /\ seen' = {}
    /\ LET lastPage == responses[UndefinedNum]
       IN /\ page' = lastPage
          /\ pageParam' = getNextPageParam(lastPage)
          /\ hasNextPage' = (getNextPageParam(lastPage) # UndefinedNum)
    /\ UNCHANGED <<relay, now, input, call, responses, isFetchingNextPage>>

\* UpcomingEventsList, lines 24-28: fetchNextPage() while hasNextPage
FetchNextPage ==
    /\ fetched
    /\ hasNextPage
    /\ ~isFetchingNextPage
    /\ isFetchingNextPage' = TRUE
    /\ UNCHANGED <<relay, now, input, call, pageParam, hasNextPage, page, seen,
                   fetched, responses>>

\* queryFn({pageParam}) resolves: the page is appended, and getNextPageParam
\* gives the next cursor
ResolveNextPage ==
    /\ isFetchingNextPage
    /\ isFetchingNextPage' = FALSE
    /\ seen' = seen \cup Ids(page)
    /\ LET lastPage == responses[pageParam]
       IN /\ page' = lastPage
          /\ pageParam' = getNextPageParam(lastPage)
          /\ hasNextPage' = (getNextPageParam(lastPage) # UndefinedNum)
    /\ UNCHANGED <<relay, now, input, call, fetched, responses>>

NextUpcoming ==
    \/ FetchFirstPage
    \/ FetchNextPage
    \/ ResolveNextPage

SpecUpcoming == InitUpcoming /\ [][NextUpcoming]_vars

\* The caller keeps chaining the cursor: a page that can be fetched is fetched.
SpecUpcomingFair ==
    /\ InitUpcoming
    /\ [][NextUpcoming]_vars
    /\ WF_vars(FetchFirstPage)
    /\ WF_vars(FetchNextPage)
    /\ WF_vars(ResolveNextPage)

\* C1: chaining the cursor, no event (by id) of an earlier page appears
\* again on a later page.
C1_NoEventTwice == \A i \in 1..Len(page) : page[i].id \notin seen

\* C2: chaining the cursor reaches, after finitely many calls, an empty page,
\* after which getNextPageParam returns undefined and no page is requested.
C2_PaginationTerminates ==
    <>(fetched /\ ~isFetchingNextPage /\ page = <<>> /\ ~hasNextPage)

(***************************************************************************)
(* The query hooks, each applied once to a relay content drawn at the      *)
(* start, with arguments drawn at the start.                               *)
(***************************************************************************)
PageParams == {UndefinedNum, Num(0), Num(2)}

\* June 2025, the hours around the start of t_soon, and the hours from the
\* end of t_soon on.
Ranges == {<<1748736000, 1751327999>>, <<1748790000, 1748801000>>,
           <<1748803600, 1748810000>>}

Queries == {<<"#", "m", "u", "s", "i", "c">>, <<" ", "#", "M", "u", "s", "i", "c", " ">>, <<"m", "e", "e", "t", "u", "p">>, <<"b", "e", "r", "l", "i", "n">>, <<" ", " ">>}

SearchLimits == {1, 50}

EventIds == {"", "t_soon", "bad_end", "d_today", "absent"}

QueryInputs ==
    {[op |-> "recent", limit |-> l] : l \in Limits}
        \cup {[op |-> "upcoming", limit |-> l, pageParam |-> c] :
                 l \in Limits, c \in PageParams}
        \cup {[op |-> "range", startDate |-> r[1], endDate |-> r[2]] :
                 r \in Ranges}
        \cup {[op |-> "search", query |-> q, limit |-> l] :
                 q \in Queries, l \in SearchLimits}
        \cup {[op |-> "event", id |-> i] : i \in EventIds}

InitQuery ==
    /\ relay \in RelayContents
    /\ now \in NowValues
    /\ input \in QueryInputs
    /\ call = Idle
    /\ PaginationIdle

\* What a hook's queryFn came to: the collaborator's responses, whether it
\* threw, and the value it resolved to.
Outcome(op, returned, failed, result) ==
    [op |-> op, returned |-> returned, failed |-> failed, result |-> result]

\* What the search came to: with the result, the object each entry holds.
SearchOutcome(returned, failed, result, origins) ==
    [op |-> "search", returned |-> returned, failed |-> failed,
     result |-> result, origins |-> origins]

\* useRecentCalendarEvents(limit).queryFn, lines 14-44
UseRecentCalendarEvents ==
    /\ input.op = "recent"
    /\ LET events == query(relay, RecentFilter(input.limit))
       IN  call' = Outcome("recent", <<events>>, FALSE, RecentResult(events))
    /\ UNCHANGED <<relay, now, input, pageParam, hasNextPage, page, seen, fetched,
                   responses, isFetchingNextPage>>

\* useUpcomingCalendarEvents(limit).queryFn({pageParam}), lines 55-135
UseUpcomingCalendarEvents ==
    /\ input.op = "upcoming"
    /\ LET timeBasedEvents ==
               query(relay, UpcomingFilter(KindTimeBased, input.pageParam,
                                           input.limit))
           dateBasedEvents ==
               query(relay, UpcomingFilter(KindDateBased, input.pageParam,
                                           input.limit))
       IN  call' = Outcome("upcoming", <<timeBasedEvents, dateBasedEvents>>, FALSE,
                           UpcomingResult(timeBasedEvents, dateBasedEvents, now))
    /\ UNCHANGED <<relay, now, input, pageParam, hasNextPage, page, seen, fetched,
                   responses, isFetchingNextPage>>

\* useCalendarEventsByDateRange(startDate, endDate).queryFn, lines 152-200
UseCalendarEventsByDateRange ==
    /\ input.op = "range"
    /\ LET timeBasedEvents == query(relay, RangeFilter(KindTimeBased))
           dateBasedEvents == query(relay, RangeFilter(KindDateBased))
       IN  call' = Outcome("range", <<timeBasedEvents, dateBasedEvents>>, FALSE,
                           ByDateRangeResult(timeBasedEvents, dateBasedEvents,
                                             input.startDate, input.endDate))
    /\ UNCHANGED <<relay, now, input, pageParam, hasNextPage, page, seen, fetched,
                   responses, isFetchingNextPage>>

\* useCalendarEventSearch(query, limit).queryFn, lines 214-269: an empty
\* normalized query returns [] without asking the relay; the hashtag query is
\* made only for a query that starts with '#'
UseCalendarEventSearch ==
    /\ input.op = "search"
    /\ LET normalizedQuery == normalizeQuery(input.query)
           events == IF startsWith(normalizedQuery, <<"#">>)
                     THEN query(relay, HashtagFilter(normalizedQuery, input.limit))
                     ELSE <<>>
           allEvents == query(relay, BroadFilter(input.limit))
       IN  call' =
               IF normalizedQuery = <<>>
               THEN SearchOutcome(<<<<>>, <<>>>>, FALSE, <<>>, <<>>)
               ELSE IF ClientMatchThrows(allEvents, normalizedQuery)
               THEN SearchOutcome(<<events, allEvents>>, TRUE, <<>>, <<>>)
               ELSE SearchOutcome(<<events, allEvents>>, FALSE,
                                  SearchResult(events, allEvents, normalizedQuery),
                                  SearchOrigins(events, allEvents, normalizedQuery))
    /\ UNCHANGED <<relay, now, input, pageParam, hasNextPage, page, seen, fetched,
                   responses, isFetchingNextPage>>

\* useCalendarEvent(id).queryFn, lines 283-298
UseCalendarEvent ==
    /\ input.op = "event"
    /\ LET events == IF input.id = "" THEN <<>>
                     ELSE query(relay, EventFilter(input.id))
       IN  call' = Outcome("event", <<events>>, FALSE,
                           IF input.id = "" THEN Null ELSE EventResult(events))
    /\ UNCHANGED <<relay, now, input, pageParam, hasNextPage, page, seen, fetched,
                   responses, isFetchingNextPage>>

NextQuery ==
    \/ UseRecentCalendarEvents
    \/ UseUpcomingCalendarEvents
    \/ UseCalendarEventsByDateRange
    \/ UseCalendarEventSearch
    \/ UseCalendarEvent

SpecQuery == InitQuery /\ [][NextQuery]_vars

(***************************************************************************)
(* Claims about the query hooks (SpecQuery)                                *)
(***************************************************************************)
\* The raw events that pass validateCalendarEvent and parseCalendarEvent.
RECURSIVE RemoveInvalid(_)
RemoveInvalid(events) ==
    IF events = <<>> THEN <<>>
    ELSE (IF validateCalendarEvent(Head(events))
                /\ parseCalendarEvent(Head(events)) # Null
          THEN <<Head(events)>> ELSE <<>>)
         \o RemoveInvalid(Tail(events))

\* Two lists of parsed events are equal, entry by entry.
SameEvents(a, b) ==
    /\ Len(a) = Len(b)
    /\ \A i \in 1..Len(a) : a[i].id = b[i].id /\ a[i] = b[i]

\* Two results of useCalendarEvent are equal.
SameEvent(a, b) ==
    IF a = Null \/ b = Null THEN a = Null /\ b = Null
    ELSE a.id = b.id /\ a = b

HasInvalid(returned) ==
    \E k \in 1..Len(returned) : \E i \in 1..Len(returned[k]) :
        ~validateCalendarEvent(returned[k][i])
            \/ parseCalendarEvent(returned[k][i]) = Null

\* C5: in every query path (recent, upcoming, by date range, search, single
\* event by id) the operation does not fail because of an invalid raw event,
\* and its outcome is the outcome computed from the same responses of the
\* collaborator with the events that fail validateCalendarEvent or
\* parseCalendarEvent removed.
C5_InvalidEventsDropped ==
    /\ call.op = "recent" =>
          /\ ~call.failed
          /\ SameEvents(call.result, RecentResult(RemoveInvalid(call.returned[1])))
    /\ call.op = "upcoming" =>
          /\ ~call.failed
          /\ SameEvents(call.result,
                        UpcomingResult(RemoveInvalid(call.returned[1]),
                                       RemoveInvalid(call.returned[2]), now))
    /\ call.op = "range" =>
          /\ ~call.failed
          /\ SameEvents(call.result,
                        ByDateRangeResult(RemoveInvalid(call.returned[1]),
                                          RemoveInvalid(call.returned[2]),
                                          input.startDate, input.endDate))
    /\ call.op = "search" =>
          LET q == normalizeQuery(input.query)
              events == RemoveInvalid(call.returned[1])
              allEvents == RemoveInvalid(call.returned[2])
          IN  /\ call.failed = ClientMatchThrows(allEvents, q)
              /\ ~call.failed =>
                     SameEvents(call.result, SearchResult(events, allEvents, q))
    /\ call.op = "event" =>
          /\ ~call.failed
          /\ SameEvent(call.result, EventResult(RemoveInvalid(call.returned[1])))

\* A list operation returned events from responses that held an invalid one.
C5_Witness ==
    /\ call.op \in {"recent", "upcoming", "range", "search"}
    /\ HasInvalid(call.returned)
    /\ ~call.failed
    /\ call.result # <<>>

HashtagIds == Ids(ValidParsed(call.returned[1]))
ClientMatchedIds ==
    Ids(ClientMatched(call.returned[2], normalizeQuery(input.query)))

\* C6: the list the search returns holds each event id at most once, and holds
\* every id of the validated hashtag results and of the validated client-side
\* matches.
C6_SearchDeduplicates ==
    (call.op = "search" /\ ~call.failed) =>
        /\ \A i, j \in 1..Len(call.result) :
               call.result[i].id = call.result[j].id => i = j
        /\ HashtagIds \cup ClientMatchedIds \subseteq Ids(call.result)

\* A search returned an event that both the hashtag query and the client-side
\* match had found.
C6_Witness ==
    /\ call.op = "search"
    /\ ~call.failed
    /\ HashtagIds \cap ClientMatchedIds # {}
    /\ HashtagIds \cap ClientMatchedIds \subseteq Ids(call.result)

(***************************************************************************)
(* Claims about the validators (SpecValidator)                             *)
(***************************************************************************)
HasTag(event, name) == FindTag(event.tags, name) # 0

\* C4: validateCalendarEvent, validateCalendar and validateCalendarEventRSVP
\* never throw: whatever the raw event, one-element tags included, each
\* returns true or false.
C4_ValidatorsNeverThrow ==
    /\ call.op \in {"validateCalendarEvent", "validateCalendar"}
          => call.result \in BOOLEAN
    /\ call.op = "validateCalendarEventRSVP"
          => call.result \in {"true", "false"}

\* C7: validateCalendarEventRSVP returns false for every kind-31925 event
\* whose status is "declined" and that holds a tag whose first element is
\* "fb", whatever the value of that tag (free, busy, empty or missing).
C7_DeclinedWithFbIsInvalid ==
    ( /\ call.op = "validateCalendarEventRSVP"
      /\ input.kind = KindRSVP
      /\ getTagValue(input, <<"s", "t", "a", "t", "u", "s">>) = <<"d", "e", "c", "l", "i", "n", "e", "d">>
      /\ HasTag(input, <<"f", "b">>) )
    => call.result = "false"

\* C7, witness: a declined RSVP, otherwise well-formed, whose fb tag has no
\* value at all has been rejected.
C7_Witness ==
    /\ call.op = "validateCalendarEventRSVP"
    /\ input.kind = KindRSVP
    /\ input.tags = <<<<<<"a">>, <<"3", "1", "9", "2", "3", ":", "p", "u", "b", "1", ":", "e", "v", "1">>>>, <<<<"d">>, <<"r", "1">>>>,
                      <<<<"s", "t", "a", "t", "u", "s">>, <<"d", "e", "c", "l", "i", "n", "e", "d">>>>, <<<<"f", "b">>>>>>
    /\ call.result = "false"

\* C8 as stated: for every kind-31922 event with d and title present and
\* with start and end both matching YYYY-MM-DD, validateCalendarEvent returns
\* false when end <= start and true when end > start.
C8_Original ==
    LET start == getTagValue(input, <<"s", "t", "a", "r", "t">>)
        end == getTagValue(input, <<"e", "n", "d">>)
    IN  ( /\ call.op = "validateCalendarEvent"
          /\ input.kind = KindDateBased
          /\ HasTag(input, <<"d">>)
          /\ HasTag(input, <<"t", "i", "t", "l", "e">>)
          /\ dateRegexTest(start)
          /\ dateRegexTest(end) )
        => /\ StrLeq(end, start) => call.result = FALSE
           /\ StrLess(start, end) => call.result = TRUE

\* C8, amended: for every kind-31922 event whose d and title have non-empty
\* values and whose start and end both match YYYY-MM-DD, validateCalendarEvent
\* returns false when end <= start and true when end > start.
C8_DateEndAfterStart ==
    LET start == getTagValue(input, <<"s", "t", "a", "r", "t">>)
        end == getTagValue(input, <<"e", "n", "d">>)
    IN  ( /\ call.op = "validateCalendarEvent"
          /\ input.kind = KindDateBased
          /\ Truthy(getTagValue(input, <<"d">>))
          /\ Truthy(getTagValue(input, <<"t", "i", "t", "l", "e">>))
          /\ dateRegexTest(start)
          /\ dateRegexTest(end) )
        => /\ StrLeq(end, start) => call.result = FALSE
           /\ StrLess(start, end) => call.result = TRUE

\* C8, witness: a date-based event whose end equals its start has been
\* rejected.
C8_Witness ==
    /\ call.op = "validateCalendarEvent"
    /\ input.kind = KindDateBased
    /\ Truthy(getTagValue(input, <<"d">>))
    /\ Truthy(getTagValue(input, <<"t", "i", "t", "l", "e">>))
    /\ getTagValue(input, <<"s", "t", "a", "r", "t">>) = <<"2", "0", "2", "5", "-", "0", "6", "-", "0", "1">>
    /\ getTagValue(input, <<"e", "n", "d">>) = <<"2", "0", "2", "5", "-", "0", "6", "-", "0", "1">>
    /\ call.result = FALSE

\* C9: for every kind-31923 event that holds an "end" tag,
\* validateCalendarEvent returns false unless the end value parses as a
\* positive integer strictly greater than the parsed start.
C9_TimeEndAfterStart ==
    LET start == parseInt(getTagValue(input, <<"s", "t", "a", "r", "t">>))
        end == parseInt(getTagValue(input, <<"e", "n", "d">>))
    IN  ( /\ call.op = "validateCalendarEvent"
          /\ input.kind = KindTimeBased
          /\ HasTag(input, <<"e", "n", "d">>)
          /\ call.result = TRUE )
        => /\ IsNum(start)
           /\ IsNum(end)
           /\ Val(end) > 0
           /\ Val(end) > Val(start)

\* C10: for every kind-31923 event, validateCalendarEvent returns false
\* unless the start value parses as a base-10 integer greater than 0.
C10_TimeStartPositiveBase10 ==
    LET start == ParseIntRadix(getTagValue(input, <<"s", "t", "a", "r", "t">>), 10)
    IN  ( /\ call.op = "validateCalendarEvent"
          /\ input.kind = KindTimeBased
          /\ call.result = TRUE )
        => IsNum(start) /\ Val(start) > 0

\* C11: each validator returns false for every raw event that lacks one of
\* its required tags (d, title or start for validateCalendarEvent; d or title
\* for validateCalendar; d, status or an a-tag for validateCalendarEventRSVP),
\* and for every event whose kind is not one it validates.
C11_MissingRequiredTagIsInvalid ==
    /\ ( /\ call.op = "validateCalendarEvent"
         /\ \/ input.kind \notin {KindDateBased, KindTimeBased}
            \/ ~HasTag(input, <<"d">>)
            \/ ~HasTag(input, <<"t", "i", "t", "l", "e">>)
            \/ ~HasTag(input, <<"s", "t", "a", "r", "t">>) )
       => call.result = FALSE
    /\ ( /\ call.op = "validateCalendar"
         /\ \/ input.kind # KindCalendar
            \/ ~HasTag(input, <<"d">>)
            \/ ~HasTag(input, <<"t", "i", "t", "l", "e">>) )
       => call.result = FALSE
    /\ ( /\ call.op = "validateCalendarEventRSVP"
         /\ \/ input.kind # KindRSVP
            \/ ~HasTag(input, <<"d">>)
            \/ ~HasTag(input, <<"s", "t", "a", "t", "u", "s">>)
            \/ ~HasTag(input, <<"a">>) )
       => call.result = "false"

\* C11, witness: a kind-31924 event with a d tag and no title tag has been
\* rejected by validateCalendar.
C11_Witness ==
    /\ call.op = "validateCalendar"
    /\ input.kind = KindCalendar
    /\ Truthy(getTagValue(input, <<"d">>))
    /\ ~HasTag(input, <<"t", "i", "t", "l", "e">>)
    /\ call.result = FALSE

\* C12: validateCalendarEventRSVP returns true for no event that holds a tag
\* whose first element is "fb" and whose value is not exactly "free" or
\* "busy".
C12_FbValueFreeOrBusy ==
    ( /\ call.op = "validateCalendarEventRSVP"
      /\ call.result = "true" )
    => \A i \in 1..Len(input.tags) :
           TagIs(input.tags[i], <<"f", "b">>)
               => TagAt(input.tags[i], 1) \in {<<"f", "r", "e", "e">>, <<"b", "u", "s", "y">>}

\* A string of decimal digits with an optional sign: an integer written out.
IsIntegerString(s) ==
    LET digits == IF s # <<>> /\ Head(s) \in {"-", "+"} THEN Tail(s) ELSE s
    IN  digits # <<>> /\ \A i \in 1..Len(digits) : digits[i] \in Digits

\* C13: validateCalendarEventRSVP returns true only if the value of the
\* a-tag, split on ":", has at least 3 parts and its first part is an integer
\* that is 31922 or 31923; an a-tag whose first part is not an integer is
\* rejected.
C13_ATagNamesCalendarEventKind ==
    LET aValue == getTagValue(input, <<"a">>)
        aParts == split(aValue, ":")
    IN  ( /\ call.op = "validateCalendarEventRSVP"
          /\ call.result = "true" )
        => /\ Len(aParts) >= 3
           /\ IsIntegerString(aParts[1])
           /\ Val(parseInt(aParts[1])) \in {KindDateBased, KindTimeBased}

\* C14: validateCalendarEventRSVP returns false for every event whose kind is
\* not 31925 or whose status value is not one of accepted, declined,
\* tentative; the RSVP with the tags a "31923:pub1:ev1", d "r1", status
\* "accepted", fb "busy" is valid.
C14_StatusAndKind ==
    /\ ( /\ call.op = "validateCalendarEventRSVP"
         /\ \/ input.kind # KindRSVP
            \/ getTagValue(input, <<"s", "t", "a", "t", "u", "s">>)
                   \notin {<<"a", "c", "c", "e", "p", "t", "e", "d">>, <<"d", "e", "c", "l", "i", "n", "e", "d">>, <<"t", "e", "n", "t", "a", "t", "i", "v", "e">>} )
       => call.result = "false"
    /\ ( /\ call.op = "validateCalendarEventRSVP"
         /\ input.kind = KindRSVP
         /\ input.tags = <<<<<<"a">>, <<"3", "1", "9", "2", "3", ":", "p", "u", "b", "1", ":", "e", "v", "1">>>>, <<<<"d">>, <<"r", "1">>>>,
                           <<<<"s", "t", "a", "t", "u", "s">>, <<"a", "c", "c", "e", "p", "t", "e", "d">>>>, <<<<"f", "b">>, <<"b", "u", "s", "y">>>>>> )
       => call.result = "true"

\* C14, the example: the example RSVP has been accepted.
C14_ExampleAccepted ==
    /\ call.op = "validateCalendarEventRSVP"
    /\ input.kind = KindRSVP
    /\ input.tags = <<<<<<"a">>, <<"3", "1", "9", "2", "3", ":", "p", "u", "b", "1", ":", "e", "v", "1">>>>, <<<<"d">>, <<"r", "1">>>>,
                      <<<<"s", "t", "a", "t", "u", "s">>, <<"a", "c", "c", "e", "p", "t", "e", "d">>>>, <<<<"f", "b">>, <<"b", "u", "s", "y">>>>>>
    /\ call.result = "true"

\* C14, witness: an RSVP, otherwise well-formed, whose status is "maybe" has
\* been rejected.
C14_Witness ==
    /\ call.op = "validateCalendarEventRSVP"
    /\ input.kind = KindRSVP
    /\ input.tags = <<<<<<"a">>, <<"3", "1", "9", "2", "3", ":", "p", "u", "b", "1", ":", "e", "v", "1">>>>, <<<<"d">>, <<"r", "1">>>>,
                      <<<<"s", "t", "a", "t", "u", "s">>, <<"m", "a", "y", "b", "e">>>>>>
    /\ call.result = "false"

(***************************************************************************)
(* parseCalendarEvent, applied to a raw event drawn at the start.          *)
(***************************************************************************)
ParseCalendarEvent ==
    /\ call' = [op |-> "parseCalendarEvent", result |-> parseCalendarEvent(input)]
    /\ UNCHANGED <<relay, now, input, pageParam, hasNextPage, page, seen, fetched,
                   responses, isFetchingNextPage>>

NextParser == ParseCalendarEvent

SpecParser == InitValidator /\ [][NextParser]_vars

\* parseInt gives a number for the value of a tag.
ParsesAsInteger(value) == value # Undefined /\ ~isNaN(parseInt(value))

\* The result is a time-based event with this start and no end.
TimeBasedWithoutEnd(result, start) ==
    /\ result # Null
    /\ result.kind = KindTimeBased
    /\ result.start = Val(parseInt(start))
    /\ result.end = UndefinedNum

\* C15 as stated: parseCalendarEvent on a kind-31923 event with d, title and
\* start present: if start does not parse as an integer the result is null;
\* if start parses but the end tag does not parse as an integer, the result
\* is a time-based event with the parsed start and with end absent.
C15_Original ==
    LET start == getTagValue(input, <<"s", "t", "a", "r", "t">>)
        end == getTagValue(input, <<"e", "n", "d">>)
    IN  ( /\ call.op = "parseCalendarEvent"
          /\ input.kind = KindTimeBased
          /\ HasTag(input, <<"d">>)
          /\ HasTag(input, <<"t", "i", "t", "l", "e">>)
          /\ HasTag(input, <<"s", "t", "a", "r", "t">>) )
        => /\ ~ParsesAsInteger(start) => call.result = Null
           /\ (ParsesAsInteger(start) /\ HasTag(input, <<"e", "n", "d">>)
                   /\ ~ParsesAsInteger(end))
                  => TimeBasedWithoutEnd(call.result, start)

\* C15, amended: the same for a kind-31923 event whose d and title tags have
\* non-empty values and that holds a start tag.
C15_UnparsableStartOrEnd ==
    LET start == getTagValue(input, <<"s", "t", "a", "r", "t">>)
        end == getTagValue(input, <<"e", "n", "d">>)
    IN  ( /\ call.op = "parseCalendarEvent"
          /\ input.kind = KindTimeBased
          /\ Truthy(getTagValue(input, <<"d">>))
          /\ Truthy(getTagValue(input, <<"t", "i", "t", "l", "e">>))
          /\ HasTag(input, <<"s", "t", "a", "r", "t">>) )
        => /\ ~ParsesAsInteger(start) => call.result = Null
           /\ (ParsesAsInteger(start) /\ HasTag(input, <<"e", "n", "d">>)
                   /\ ~ParsesAsInteger(end))
                  => TimeBasedWithoutEnd(call.result, start)

\* C15, witness: a time-based event whose end is "abc" has been parsed, with
\* its start and without an end.
C15_Witness ==
    /\ call.op = "parseCalendarEvent"
    /\ input.kind = KindTimeBased
    /\ Truthy(getTagValue(input, <<"d">>))
    /\ Truthy(getTagValue(input, <<"t", "i", "t", "l", "e">>))
    /\ getTagValue(input, <<"s", "t", "a", "r", "t">>) = <<"1", "7", "1", "7", "2", "0", "0", "0", "0", "0">>
    /\ getTagValue(input, <<"e", "n", "d">>) = <<"a", "b", "c">>
    /\ TimeBasedWithoutEnd(call.result, <<"1", "7", "1", "7", "2", "0", "0", "0", "0", "0">>)

\* C15, the other case reached: an event whose start is "abc" has given null.
C15_StartUnparsable ==
    /\ call.op = "parseCalendarEvent"
    /\ input.kind = KindTimeBased
    /\ Truthy(getTagValue(input, <<"d">>))
    /\ Truthy(getTagValue(input, <<"t", "i", "t", "l", "e">>))
    /\ getTagValue(input, <<"s", "t", "a", "r", "t">>) = <<"a", "b", "c">>
    /\ call.result = Null

(***************************************************************************)
(* Claims about the serializers                                            *)
(***************************************************************************)
TagNames(tags) == [i \in 1..Len(tags) |-> tags[i][1]]

Repeat(name, n) == [i \in 1..n |-> name]

IfSet(set, name) == IF set THEN <<name>> ELSE <<>>

\* The names of the tags in the order C16 gives for a domain event.
ClaimedTagNames(e) ==
    <<<<"d">>, <<"t", "i", "t", "l", "e">>>>
        \o IfSet(Truthy(e.summary), <<"s", "u", "m", "m", "a", "r", "y">>)
        \o IfSet(Truthy(e.image), <<"i", "m", "a", "g", "e">>)
        \o Repeat(<<"l", "o", "c", "a", "t", "i", "o", "n">>, Len(e.locations))
        \o IfSet(Truthy(e.geohash), <<"g">>)
        \o Repeat(<<"p">>, Len(e.participants))
        \o Repeat(<<"t">>, Len(e.hashtags))
        \o Repeat(<<"r">>, Len(e.references))
        \o Repeat(<<"a">>, Len(e.calendarRefs))
        \o <<<<"s", "t", "a", "r", "t">>>>
        \o (IF e.kind = KindDateBased
            THEN IfSet(Truthy(e.end), <<"e", "n", "d">>)
            ELSE IfSet(e.end # UndefinedNum, <<"e", "n", "d">>)
                     \o IfSet(Truthy(e.start_tzid), <<"s", "t", "a", "r", "t", "_", "t", "z", "i", "d">>)
                     \o IfSet(Truthy(e.end_tzid), <<"e", "n", "d", "_", "t", "z", "i", "d">>))

\* C16: serializeCalendarEvent emits the tags d, title, summary if set, image
\* if set, the locations, g if set, one p tag per participant that holds the
\* pubkey, the relayUrl and the role each at its own position, the hashtags,
\* the references, the calendarRefs, start, end if set and the two time zones
\* if set, in this order, the elements of each list in their input order.
C16_TagOrder ==
    call.op = "serializeCalendarEvent" =>
        LET emitted == ParticipantsOfTags(call.result.tags)
        IN  /\ TagNames(call.result.tags) = ClaimedTagNames(input)
            /\ getTagValues(call.result, <<"l", "o", "c", "a", "t", "i", "o", "n">>) = input.locations
            /\ getTagValues(call.result, <<"t">>) = input.hashtags
            /\ getTagValues(call.result, <<"r">>) = input.references
            /\ getTagValues(call.result, <<"a">>) = input.calendarRefs
            /\ Len(emitted) = Len(input.participants)
            /\ \A k \in 1..Len(emitted) :
                   LET participant == input.participants[k]
                   IN  /\ emitted[k].pubkey = participant.pubkey
                       /\ Truthy(participant.relayUrl)
                              => emitted[k].relayUrl = participant.relayUrl
                       /\ Truthy(participant.role)
                              => emitted[k].role = participant.role

(***************************************************************************)
(* serializeCalendarRSVP, applied to an RSVP drawn at the start.           *)
(***************************************************************************)
RsvpInputs ==
    {[id |-> "r1", pubkey |-> "pk1", created_at |-> 1717000000, kind |-> KindRSVP,
      content |-> content, eventCoordinates |-> <<"3", "1", "9", "2", "3", ":", "p", "u", "b", "1", ":", "e", "v", "1">>,
      eventId |-> eventId, d |-> d, status |-> status, freebusy |-> freebusy,
      authorPubkey |-> authorPubkey] :
        content \in {<<>>, <<"s", "e", "e", " ", "y", "o", "u">>},
        eventId \in {Undefined, <<"e", "v", "1">>},
        d \in {<<"r", "1">>, <<"r", "2">>},
        status \in {<<"a", "c", "c", "e", "p", "t", "e", "d">>, <<"d", "e", "c", "l", "i", "n", "e", "d">>, <<"t", "e", "n", "t", "a", "t", "i", "v", "e">>},
        freebusy \in {Undefined, <<"f", "r", "e", "e">>, <<"b", "u", "s", "y">>},
        authorPubkey \in {Undefined, <<"p", "u", "b", "1">>}}

InitRsvp ==
    /\ input \in RsvpInputs
    /\ call = Idle
    /\ relay = <<>>
    /\ now = 0
    /\ PaginationIdle

SerializeCalendarRSVP ==
    /\ call' = [op |-> "serializeCalendarRSVP",
                result |-> serializeCalendarRSVP(input)]
    /\ UNCHANGED <<relay, now, input, pageParam, hasNextPage, page, seen, fetched,
                   responses, isFetchingNextPage>>

NextRsvp == SerializeCalendarRSVP

SpecRsvp == InitRsvp /\ [][NextRsvp]_vars

\* C17: serializeCalendarRSVP emits the tags a, d, status, then e if eventId
\* is set, fb if freebusy is set, p if authorPubkey is set, in this order; it
\* emits no fb tag when status is "declined", whatever freebusy the caller
\* gave, and returns an event in that case too.
C17_RsvpTagOrder ==
    call.op = "serializeCalendarRSVP" =>
        LET tags == call.result.tags
            fb == Truthy(input.freebusy) /\ input.status # <<"d", "e", "c", "l", "i", "n", "e", "d">>
        IN  /\ call.result.kind = KindRSVP
            /\ TagNames(tags) =
                   <<<<"a">>, <<"d">>, <<"s", "t", "a", "t", "u", "s">>>>
                       \o IfSet(Truthy(input.eventId), <<"e">>)
                       \o IfSet(fb, <<"f", "b">>)
                       \o IfSet(Truthy(input.authorPubkey), <<"p">>)
            /\ getTagValue(call.result, <<"a">>) = input.eventCoordinates
            /\ getTagValue(call.result, <<"d">>) = input.d
            /\ getTagValue(call.result, <<"s", "t", "a", "t", "u", "s">>) = input.status
            /\ Truthy(input.eventId)
                   => getTagValue(call.result, <<"e">>) = input.eventId
            /\ fb => getTagValue(call.result, <<"f", "b">>) = input.freebusy
            /\ Truthy(input.authorPubkey)
                   => getTagValue(call.result, <<"p">>) = input.authorPubkey
            /\ input.status = <<"d", "e", "c", "l", "i", "n", "e", "d">> => ~HasTag(call.result, <<"f", "b">>)

\* C17, witness: a declined RSVP that came with freebusy "busy", an eventId
\* and an authorPubkey has been serialized to the tags a, d, status, e, p.
C17_Witness ==
    /\ call.op = "serializeCalendarRSVP"
    /\ input.status = <<"d", "e", "c", "l", "i", "n", "e", "d">>
    /\ input.freebusy = <<"b", "u", "s", "y">>
    /\ TagNames(call.result.tags) = <<<<"a">>, <<"d">>, <<"s", "t", "a", "t", "u", "s">>, <<"e">>, <<"p">>>>

(***************************************************************************)
(* Publish hooks.  `user` is the pubkey of the logged-in user or undefined; *)
(* a mutationFn gives the error it throws ("none" when it throws nothing)  *)
(* and the events it hands to the collaborator's publishEvent.             *)
(***************************************************************************)
\* props.locations || []: a list that may be missing is <<>> or <<list>>
OrEmpty(list) == IF list = <<>> THEN <<>> ELSE list[1]

\* useDateBasedCalendarEvent.mutationFn, lines 357-372: the error thrown
\* before the event is built
DateEventError(user, props) ==
    IF ~Truthy(user)
    THEN "You must be logged in to create a calendar event"
    ELSE IF ~dateRegexTest(props.start)
    THEN "Invalid start date format. Use YYYY-MM-DD"
    ELSE IF Truthy(props.end) /\ ~dateRegexTest(props.end)
    THEN "Invalid end date format. Use YYYY-MM-DD"
    ELSE IF Truthy(props.end) /\ StrLeq(props.end, props.start)
    THEN "End date must be after start date"
    ELSE "none"

\* lines 374-392: the event that is serialized
DateEventOf(user, props, d, nowSeconds) ==
    [kind |-> KindDateBased, id |-> "", pubkey |-> user,
     created_at |-> nowSeconds, content |-> props.content, tags |-> <<>>,
     d |-> d, title |-> props.title, start |-> props.start, end |-> props.end,
     summary |-> props.summary, image |-> props.image,
     locations |-> OrEmpty(props.locations),
     hashtags |-> OrEmpty(props.hashtags),
     references |-> OrEmpty(props.references),
     calendarRefs |-> OrEmpty(props.calendarRefs), participants |-> <<>>,
     geohash |-> Undefined]

\* useTimeBasedCalendarEvent.mutationFn, lines 411-429
TimeEventError(user, props) ==
    IF ~Truthy(user)
    THEN "You must be logged in to create a calendar event"
    ELSE IF isNaN(props.start) \/ Val(props.start) <= 0
    THEN "Invalid start timestamp"
    ELSE IF props.end # UndefinedNum
               /\ (isNaN(props.end) \/ Val(props.end) <= Val(props.start))
    THEN "End time must be after start time"
    ELSE IF Truthy(props.start_tzid) /\ ~isValidTimeZone(props.start_tzid)
    THEN "Invalid start timezone"
    ELSE IF Truthy(props.end_tzid) /\ ~isValidTimeZone(props.end_tzid)
    THEN "Invalid end timezone"
    ELSE "none"

\* lines 431-451
TimeEventOf(user, props, d, nowSeconds) ==
    [kind |-> KindTimeBased, id |-> "", pubkey |-> user,
     created_at |-> nowSeconds, content |-> props.content, tags |-> <<>>,
     d |-> d, title |-> props.title, start |-> Val(props.start),
     end |-> props.end, start_tzid |-> props.start_tzid,
     end_tzid |-> props.end_tzid,
     summary |-> props.summary, image |-> props.image,
     locations |-> OrEmpty(props.locations),
     hashtags |-> OrEmpty(props.hashtags),
     references |-> OrEmpty(props.references),
     calendarRefs |-> OrEmpty(props.calendarRefs), participants |-> <<>>,
     geohash |-> Undefined]

\* Mutant of RsvpError: a declined RSVP with a freebusy value is let through.
RsvpErrorLoginOnly(user, props) ==
    IF ~Truthy(user) THEN "You must be logged in to RSVP to an event"
    ELSE "none"

\* useCalendarEventRSVP.mutationFn, lines 484-491
RsvpError(user, props) ==
    IF ~Truthy(user) THEN "You must be logged in to RSVP to an event"
    ELSE IF props.status = <<"d", "e", "c", "l", "i", "n", "e", "d">> /\ Truthy(props.freebusy)
    THEN "Free/busy status cannot be set when declining an event"
    ELSE "none"

\* Mutant of RsvpOf: the p tag is pushed before the e tag.
RsvpOfAuthorFirst(props, d) ==
    [kind |-> KindRSVP,
     content |-> IF Truthy(props.note) THEN props.note ELSE <<>>,
     tags |-> <<<<<<"a">>, props.eventCoordinates>>, <<<<"d">>, d>>,
                <<<<"s", "t", "a", "t", "u", "s">>, props.status>>>>
              \o OptionalTag(<<"p">>, props.authorPubkey)
              \o OptionalTag(<<"e">>, props.eventId)
              \o (IF Truthy(props.freebusy) /\ props.status # <<"d", "e", "c", "l", "i", "n", "e", "d">>
                  THEN <<<<<<"f", "b">>, props.freebusy>>>> ELSE <<>>)]

\* lines 493-507
RsvpOf(props, d) ==
    [kind |-> KindRSVP,
     content |-> IF Truthy(props.note) THEN props.note ELSE <<>>,
     tags |-> <<<<<<"a">>, props.eventCoordinates>>, <<<<"d">>, d>>,
                <<<<"s", "t", "a", "t", "u", "s">>, props.status>>>>
              \o OptionalTag(<<"e">>, props.eventId)
              \o (IF Truthy(props.freebusy) /\ props.status # <<"d", "e", "c", "l", "i", "n", "e", "d">>
                  THEN <<<<<<"f", "b">>, props.freebusy>>>> ELSE <<>>)
              \o OptionalTag(<<"p">>, props.authorPubkey)]

\* What a mutationFn came to: the error thrown and the events published.
Mutation(op, error, published) ==
    [op |-> op, error |-> error, published |-> published]

\* The collaborator's publishEvent accepts the event or rejects it.
Publish(op, event, accepted) ==
    Mutation(op, IF accepted THEN "none" ELSE "publish rejected", <<event>>)

\* generateCalendarId(): a random identifier
GeneratedIds == {<<"k", "3", "j", "9", "x">>, <<"q", "8", "w", "2", "z">>}

Users == {Undefined, <<"p", "k", "1">>}

DateProps ==
    {[title |-> title, start |-> start, end |-> end, content |-> <<"n", "o", "t", "e">>,
      summary |-> Undefined, image |-> Undefined, locations |-> locations,
      hashtags |-> hashtags, references |-> <<>>, calendarRefs |-> <<>>] :
        title \in {<<"M", "e", "e", "t", "u", "p">>, <<>>},
        start \in {<<"2", "0", "2", "5", "-", "0", "6", "-", "0", "1">>, <<"2", "0", "2", "5", "-", "6", "-", "1">>},
        end \in {Undefined, <<>>, <<"2", "0", "2", "5", "-", "0", "6", "-", "0", "3">>, <<"2", "0", "2", "5", "-", "0", "6", "-", "0", "1">>, <<"2", "0", "2", "5", "-", "0", "5", "-", "3", "0">>,
                 <<"2", "0", "2", "5", "-", "6", "-", "3", "0">>},
        locations \in {<<>>, <<<<>>>>, <<<<<<"B", "e", "r", "l", "i", "n">>>>>>},
        hashtags \in {<<>>, <<<<<<"m", "u", "s", "i", "c">>>>>>}}

TimeProps ==
    {[title |-> title, start |-> start, end |-> end, content |-> <<"n", "o", "t", "e">>,
      summary |-> Undefined, image |-> Undefined, start_tzid |-> tz,
      end_tzid |-> Undefined, locations |-> locations,
      hashtags |-> <<>>, references |-> <<>>, calendarRefs |-> <<>>] :
        title \in {<<"M", "e", "e", "t", "u", "p">>, <<>>},
        start \in {Num(1717200000), Num(0), Num(-5), NaN},
        end \in {UndefinedNum, Num(1717203600), Num(1717200000),
                 Num(1717100000), NaN},
        tz \in {Undefined, <<"U", "T", "C">>, <<"M", "a", "r", "s", "/", "B", "a", "s", "e">>},
        locations \in {<<>>, <<<<<<"B", "e", "r", "l", "i", "n">>>>>>}}

RsvpProps ==
    {[eventId |-> eventId, eventCoordinates |-> <<"3", "1", "9", "2", "3", ":", "p", "u", "b", "1", ":", "e", "v", "1">>,
      status |-> status, freebusy |-> freebusy, note |-> note,
      authorPubkey |-> authorPubkey] :
        eventId \in {Undefined, <<"e", "v", "1">>},
        status \in {<<"a", "c", "c", "e", "p", "t", "e", "d">>, <<"d", "e", "c", "l", "i", "n", "e", "d">>, <<"t", "e", "n", "t", "a", "t", "i", "v", "e">>},
        freebusy \in {Undefined, <<"f", "r", "e", "e">>, <<"b", "u", "s", "y">>},
        note \in {Undefined, <<"s", "e", "e", " ", "y", "o", "u">>},
        authorPubkey \in {Undefined, <<"p", "u", "b", "1">>}}

PublishInputs ==
    {[op |-> "date", user |-> u, props |-> p] : u \in Users, p \in DateProps}
        \cup {[op |-> "time", user |-> u, props |-> p] :
                 u \in Users, p \in TimeProps}
        \cup {[op |-> "rsvp", user |-> u, props |-> p] :
                 u \in Users, p \in RsvpProps}

InitPublish ==
    /\ input \in PublishInputs
    /\ now \in NowValues
    /\ call = Idle
    /\ relay = <<>>
    /\ PaginationIdle

UseDateBasedCalendarEvent ==
    /\ input.op = "date"
    /\ \E d \in GeneratedIds, accepted \in BOOLEAN :
           LET error == DateEventError(input.user, input.props)
               event == DateEventOf(input.user, input.props, d, now)
           IN  call' = IF error # "none" THEN Mutation("date", error, <<>>)
                       ELSE Publish("date", serializeCalendarEvent(event),
                                    accepted)
    /\ UNCHANGED <<relay, now, input, pageParam, hasNextPage, page, seen, fetched,
                   responses, isFetchingNextPage>>

UseTimeBasedCalendarEvent ==
    /\ input.op = "time"
    /\ \E d \in GeneratedIds, accepted \in BOOLEAN :
           LET error == TimeEventError(input.user, input.props)
               event == TimeEventOf(input.user, input.props, d, now)
           IN  call' = IF error # "none" THEN Mutation("time", error, <<>>)
                       ELSE Publish("time", serializeCalendarEvent(event),
                                    accepted)
    /\ UNCHANGED <<relay, now, input, pageParam, hasNextPage, page, seen, fetched,
                   responses, isFetchingNextPage>>

UseCalendarEventRSVP ==
    /\ input.op = "rsvp"
    /\ \E d \in GeneratedIds, accepted \in BOOLEAN :
           LET error == RsvpError(input.user, input.props)
           IN  call' = IF error # "none" THEN Mutation("rsvp", error, <<>>)
                       ELSE Publish("rsvp", RsvpOf(input.props, d), accepted)
    /\ UNCHANGED <<relay, now, input, pageParam, hasNextPage, page, seen, fetched,
                   responses, isFetchingNextPage>>

NextPublish ==
    \/ UseDateBasedCalendarEvent
    \/ UseTimeBasedCalendarEvent
    \/ UseCalendarEventRSVP

SpecPublish == InitPublish /\ [][NextPublish]_vars

\* The call failed with an error of the hook itself and published nothing.
RejectedBeforePublish ==
    /\ call.error \notin {"none", "publish rejected"}
    /\ call.published = <<>>

\* C18 as stated: the RSVP publish called with status "declined" and a
\* freebusy value, the time-based publish called with end <= start or
\* start <= 0, and the date-based publish called with end <= start or a
\* malformed date each fail with an explicit error, and publishEvent is not
\* invoked in that call.
C18_Original ==
    /\ ( /\ call.op = "rsvp"
         /\ input.props.status = <<"d", "e", "c", "l", "i", "n", "e", "d">>
         /\ input.props.freebusy # Undefined )
       => RejectedBeforePublish
    /\ ( /\ call.op = "time"
         /\ \/ IsNum(input.props.start) /\ Val(input.props.start) <= 0
            \/ /\ IsNum(input.props.start)
               /\ IsNum(input.props.end)
               /\ Val(input.props.end) <= Val(input.props.start) )
       => RejectedBeforePublish
    /\ ( /\ call.op = "date"
         /\ \/ ~dateRegexTest(input.props.start)
            \/ /\ input.props.end # Undefined
               /\ \/ ~dateRegexTest(input.props.end)
                  \/ StrLeq(input.props.end, input.props.start) )
       => RejectedBeforePublish

\* C18, amended: the same, where the date-based publish is called with a
\* malformed start, or with a non-empty end that is malformed or <= start.
C18_PreconditionsRejected ==
    /\ ( /\ call.op = "rsvp"
         /\ input.props.status = <<"d", "e", "c", "l", "i", "n", "e", "d">>
         /\ input.props.freebusy # Undefined )
       => RejectedBeforePublish
    /\ ( /\ call.op = "time"
         /\ \/ IsNum(input.props.start) /\ Val(input.props.start) <= 0
            \/ /\ IsNum(input.props.start)
               /\ IsNum(input.props.end)
               /\ Val(input.props.end) <= Val(input.props.start) )
       => RejectedBeforePublish
    /\ ( /\ call.op = "date"
         /\ \/ ~dateRegexTest(input.props.start)
            \/ /\ Truthy(input.props.end)
               /\ \/ ~dateRegexTest(input.props.end)
                  \/ StrLeq(input.props.end, input.props.start) )
       => RejectedBeforePublish

\* C18, witness: a logged-in user's declined RSVP with freebusy "busy" has
\* failed with the error of that precondition, nothing published.
C18_Witness ==
    /\ call.op = "rsvp"
    /\ input.user # Undefined
    /\ input.props.status = <<"d", "e", "c", "l", "i", "n", "e", "d">>
    /\ input.props.freebusy = <<"b", "u", "s", "y">>
    /\ call.error = "Free/busy status cannot be set when declining an event"
    /\ call.published = <<>>

(***************************************************************************)
(* The query hooks when the collaborator can fail.  The k-th query a call  *)
(* issues gets outcomes[k]: "ok", or the failure nostr.query rejects with. *)
(* A queryFn awaits each query and catches nothing.                        *)
(***************************************************************************)
QueryOutcomes == {"ok", "timeout", "cancelled", "error"}

\* A call that rejected with `error`, and one that resolved to `value`.
Rejected(op, issued, outcomes, error) ==
    [op |-> op, issued |-> issued, outcomes |-> Take(outcomes, Len(issued)),
     error |-> error, result |-> <<>>]
Resolved(op, issued, outcomes, value) ==
    [op |-> op, issued |-> issued, outcomes |-> Take(outcomes, Len(issued)),
     error |-> "none", result |-> <<value>>]

\* useRecentCalendarEvents.queryFn, lines 14-44
RecentAttempt(content, limit, outcomes) ==
    LET filter == RecentFilter(limit)
    IN  IF outcomes[1] # "ok"
        THEN Rejected("recent", <<filter>>, outcomes, outcomes[1])
        ELSE Resolved("recent", <<filter>>, outcomes,
                      RecentResult(query(content, filter)))

\* useUpcomingCalendarEvents.queryFn, lines 55-135
UpcomingAttempt(content, nowSeconds, limit, cursor, outcomes) ==
    LET filter == UpcomingFilter(KindTimeBased, cursor, limit)
        dateBasedFilter == UpcomingFilter(KindDateBased, cursor, limit)
    IN  IF outcomes[1] # "ok"
        THEN Rejected("upcoming", <<filter>>, outcomes, outcomes[1])
        ELSE IF outcomes[2] # "ok"
        THEN Rejected("upcoming", <<filter, dateBasedFilter>>, outcomes,
                      outcomes[2])
        ELSE Resolved("upcoming", <<filter, dateBasedFilter>>, outcomes,
                      UpcomingResult(query(content, filter),
                                     query(content, dateBasedFilter),
                                     nowSeconds))

\* useCalendarEventsByDateRange.queryFn, lines 157-200
ByDateRangeAttempt(content, startDate, endDate, outcomes) ==
    LET issued == <<RangeFilter(KindTimeBased), RangeFilter(KindDateBased)>>
    IN  IF outcomes[1] # "ok"
        THEN Rejected("range", Take(issued, 1), outcomes, outcomes[1])
        ELSE IF outcomes[2] # "ok"
        THEN Rejected("range", issued, outcomes, outcomes[2])
        ELSE Resolved("range", issued, outcomes,
                      ByDateRangeResult(query(content, issued[1]),
                                        query(content, issued[2]),
                                        startDate, endDate))

\* Mutant of SearchAttempt: when the broad query fails after the hashtag
\* query, the hashtag results are returned.
SearchAttemptPartial(content, q, limit, outcomes) ==
    LET normalizedQuery == normalizeQuery(q)
        hashtag == startsWith(normalizedQuery, <<"#">>)
        issued == (IF hashtag THEN <<HashtagFilter(normalizedQuery, limit)>>
                   ELSE <<>>) \o <<BroadFilter(limit)>>
        events == IF hashtag THEN query(content, issued[1]) ELSE <<>>
        allEvents == query(content, BroadFilter(limit))
    IN  IF normalizedQuery = <<>> THEN Resolved("search", <<>>, outcomes, <<>>)
        ELSE IF hashtag /\ outcomes[1] # "ok"
        THEN Rejected("search", Take(issued, 1), outcomes, outcomes[1])
        ELSE IF outcomes[Len(issued)] # "ok"
        THEN Resolved("search", issued, outcomes, ValidParsed(events))
        ELSE IF ClientMatchThrows(allEvents, normalizedQuery)
        THEN Rejected("search", issued, outcomes, "TypeError")
        ELSE Resolved("search", issued, outcomes,
                      SearchResult(events, allEvents, normalizedQuery))

\* useCalendarEventSearch.queryFn, lines 214-269
SearchAttempt(content, q, limit, outcomes) ==
    LET normalizedQuery == normalizeQuery(q)
        hashtag == startsWith(normalizedQuery, <<"#">>)
        issued == (IF hashtag THEN <<HashtagFilter(normalizedQuery, limit)>>
                   ELSE <<>>) \o <<BroadFilter(limit)>>
        events == IF hashtag THEN query(content, issued[1]) ELSE <<>>
        allEvents == query(content, BroadFilter(limit))
    IN  IF normalizedQuery = <<>> THEN Resolved("search", <<>>, outcomes, <<>>)
        ELSE IF hashtag /\ outcomes[1] # "ok"
        THEN Rejected("search", Take(issued, 1), outcomes, outcomes[1])
        ELSE IF outcomes[Len(issued)] # "ok"
        THEN Rejected("search", issued, outcomes, outcomes[Len(issued)])
        ELSE IF ClientMatchThrows(allEvents, normalizedQuery)
        THEN Rejected("search", issued, outcomes, "TypeError")
        ELSE Resolved("search", issued, outcomes,
                      SearchResult(events, allEvents, normalizedQuery))

\* useCalendarEvent.queryFn, lines 282-298
EventAttempt(content, id, outcomes) ==
    LET filter == EventFilter(id)
    IN  IF id = "" THEN Resolved("event", <<>>, outcomes, Null)
        ELSE IF outcomes[1] # "ok"
        THEN Rejected("event", <<filter>>, outcomes, outcomes[1])
        ELSE Resolved("event", <<filter>>, outcomes,
                      EventResult(query(content, filter)))

CollaboratorInputs ==
    {[op |-> "recent", limit |-> 20]}
        \cup {[op |-> "upcoming", limit |-> 20, pageParam |-> c] :
                 c \in {UndefinedNum, Num(2)}}
        \cup {[op |-> "range", startDate |-> r[1], endDate |-> r[2]] :
                 r \in {<<1748736000, 1751327999>>}}
        \cup {[op |-> "search", query |-> q, limit |-> 50] :
                 q \in {<<"#", "m", "u", "s", "i", "c">>, <<" ", "#", "M", "u", "s", "i", "c", " ">>,
                        <<"b", "e", "r", "l", "i", "n">>, <<" ", " ">>}}
        \cup {[op |-> "event", id |-> i] : i \in {"", "t_soon"}}

InitCollaborator ==
    /\ relay \in RelayContents
    /\ now \in NowValues
    /\ input \in CollaboratorInputs
    /\ call = Idle
    /\ PaginationIdle

RecentQueryFn ==
    /\ input.op = "recent"
    /\ \E outcomes \in [1..1 -> QueryOutcomes] :
           call' = RecentAttempt(relay, input.limit, outcomes)
    /\ UNCHANGED <<relay, now, input, pageParam, hasNextPage, page, seen, fetched,
                   responses, isFetchingNextPage>>

UpcomingQueryFn ==
    /\ input.op = "upcoming"
    /\ \E outcomes \in [1..2 -> QueryOutcomes] :
           call' = UpcomingAttempt(relay, now, input.limit, input.pageParam,
                                   outcomes)
    /\ UNCHANGED <<relay, now, input, pageParam, hasNextPage, page, seen, fetched,
                   responses, isFetchingNextPage>>

ByDateRangeQueryFn ==
    /\ input.op = "range"
    /\ \E outcomes \in [1..2 -> QueryOutcomes] :
           call' = ByDateRangeAttempt(relay, input.startDate, input.endDate,
                                      outcomes)
    /\ UNCHANGED <<relay, now, input, pageParam, hasNextPage, page, seen, fetched,
                   responses, isFetchingNextPage>>

SearchQueryFn ==
    /\ input.op = "search"
    /\ \E outcomes \in [1..2 -> QueryOutcomes] :
           call' = SearchAttempt(relay, input.query, input.limit, outcomes)
    /\ UNCHANGED <<relay, now, input, pageParam, hasNextPage, page, seen, fetched,
                   responses, isFetchingNextPage>>

EventQueryFn ==
    /\ input.op = "event"
    /\ \E outcomes \in [1..1 -> QueryOutcomes] :
           call' = EventAttempt(relay, input.id, outcomes)
    /\ UNCHANGED <<relay, now, input, pageParam, hasNextPage, page, seen, fetched,
                   responses, isFetchingNextPage>>

NextCollaborator ==
    \/ RecentQueryFn
    \/ UpcomingQueryFn
    \/ ByDateRangeQueryFn
    \/ SearchQueryFn
    \/ EventQueryFn

SpecCollaborator == InitCollaborator /\ [][NextCollaborator]_vars

\* C19: in every query path, if a collaborator query of the call fails
\* (timeout, cancellation or error) the call fails with that failure and
\* returns no result, partial results included (for search also when the
\* hashtag query succeeded and the broad query then failed); and the call
\* issues no query twice.
C19_CollaboratorFailureFailsCall ==
    call.op # "idle" =>
        /\ \A k \in 1..Len(call.issued) :
               call.outcomes[k] # "ok"
                   => /\ call.error = call.outcomes[k]
                      /\ call.result = <<>>
                      /\ k = Len(call.issued)
        /\ \A j, k \in 1..Len(call.issued) :
               call.issued[j] = call.issued[k] => j = k

\* C19, witness: a search for "#music" whose hashtag query succeeded and whose
\* broad query timed out has failed with the timeout, without a result.
C19_Witness ==
    /\ call.op = "search"
    /\ Len(call.issued) = 2
    /\ call.outcomes = <<"ok", "timeout">>
    /\ ValidParsed(query(relay, call.issued[1])) # <<>>
    /\ call.error = "timeout"
    /\ call.result = <<>>

\* C20: the next-page cursor of a non-empty upcoming page is the created_at
\* of the page's last item minus one, and it is strictly less than the
\* created_at of every event on that page.
C20_CursorOlderThanPage ==
    (fetched /\ page # <<>>) =>
        /\ pageParam = Num(Last(page).created_at - 1)
        /\ \A i \in 1..Len(page) : Val(pageParam) < page[i].created_at

(***************************************************************************)
(* Claims about what the query hooks keep and how they order it            *)
(***************************************************************************)
\* The start of a parsed event lies in the future at `nowSeconds`: after it
\* for a time-based event, on or after that UTC day for a date-based one.
StartsInFuture(event, nowSeconds) ==
    IF event.kind = KindTimeBased THEN event.start > nowSeconds
    ELSE ~StrLess(event.start, IsoDateOf(nowSeconds))

\* C21: every event on an upcoming page starts in the future relative to the
\* time of the call (a time-based start is strictly greater than the current
\* Unix time, a date-based start is greater than or equal to today's date
\* string), and no valid event of the collaborator's responses that meets
\* the condition is left out of the page.
C21_UpcomingPageInFuture ==
    call.op = "upcoming" =>
        LET valid == ValidParsed(call.returned[1] \o call.returned[2])
        IN  /\ \A i \in 1..Len(call.result) :
                   StartsInFuture(call.result[i], now)
            /\ \A i \in 1..Len(valid) :
                   StartsInFuture(valid[i], now)
                       => valid[i].id \in Ids(call.result)

\* C21, witness: an upcoming page that holds an event of the responses and
\* leaves out a valid one that starts exactly now.
C21_Witness ==
    /\ call.op = "upcoming"
    /\ call.result # <<>>
    /\ LET valid == ValidParsed(call.returned[1] \o call.returned[2])
       IN  \E i \in 1..Len(valid) :
               /\ valid[i].kind = KindTimeBased
               /\ valid[i].start = now
               /\ valid[i].id \notin Ids(call.result)

(***************************************************************************)
(* The order of the recent and the upcoming lists.  The responses are      *)
(* drawn from events that force the comparators' corner cases: three       *)
(* events created in the same second, and a date-based event whose start   *)
(* matches YYYY-MM-DD and names no calendar day.                           *)
(***************************************************************************)
SortPool ==
    <<RawEvent("s_late", "pk1", KindTimeBased, 7, <<"l", "a", "t", "e">>,
               <<<<<<"d">>, <<"s", "1">>>>, <<<<"t", "i", "t", "l", "e">>, <<"L", "a", "t", "e">>>>,
                 <<<<"s", "t", "a", "r", "t">>, <<"1", "7", "5", "0", "0", "0", "0", "0", "0", "0">>>>>>),
      RawEvent("s_day", "pk2", KindDateBased, 7, <<"d", "a", "y">>,
               <<<<<<"d">>, <<"s", "2">>>>, <<<<"t", "i", "t", "l", "e">>, <<"D", "a", "y">>>>,
                 <<<<"s", "t", "a", "r", "t">>, <<"2", "0", "2", "5", "-", "0", "6", "-", "2", "0">>>>>>),
      RawEvent("s_early", "pk3", KindTimeBased, 7, <<"e", "a", "r", "l", "y">>,
               <<<<<<"d">>, <<"s", "3">>>>, <<<<"t", "i", "t", "l", "e">>, <<"E", "a", "r", "l", "y">>>>,
                 <<<<"s", "t", "a", "r", "t">>, <<"1", "7", "4", "8", "8", "0", "0", "0", "0", "0">>>>>>),
      RawEvent("s_aug", "pk1", KindTimeBased, 6, <<"a", "u", "g", "u", "s", "t">>,
               <<<<<<"d">>, <<"s", "4">>>>, <<<<"t", "i", "t", "l", "e">>, <<"A", "u", "g", "u", "s", "t">>>>,
                 <<<<"s", "t", "a", "r", "t">>, <<"1", "7", "5", "4", "0", "0", "0", "0", "0", "0">>>>>>),
      RawEvent("s_noday", "pk2", KindDateBased, 5, <<"n", "o", " ", "d", "a", "y">>,
               <<<<<<"d">>, <<"s", "5">>>>, <<<<"t", "i", "t", "l", "e">>, <<"N", "o", " ", "d", "a", "y">>>>,
                 <<<<"s", "t", "a", "r", "t">>, <<"2", "0", "2", "5", "-", "0", "6", "-", "3", "2">>>>>>),
      RawEvent("s_jul", "pk3", KindDateBased, 4, <<"j", "u", "l", "y">>,
               <<<<<<"d">>, <<"s", "6">>>>, <<<<"t", "i", "t", "l", "e">>, <<"J", "u", "l", "y">>>>,
                 <<<<"s", "t", "a", "r", "t">>, <<"2", "0", "2", "5", "-", "0", "7", "-", "0", "1">>>>>>)>>

\* The most events of the pool a relay holds.
MaxSortEvents == 3

\* Every choice of at most MaxSortEvents events of the pool, newest first.
SortContents ==
    {Reverse(Pick(SortPool, chosen)) :
        chosen \in {c \in SUBSET (1..Len(SortPool)) :
                       Cardinality(c) <= MaxSortEvents}}

SortInputs ==
    {[op |-> "recent", limit |-> l] : l \in {2, 20}}
        \cup {[op |-> "upcoming", limit |-> l, pageParam |-> UndefinedNum] :
                 l \in {2, 20}}

InitSort ==
    /\ relay \in SortContents
    /\ now = 1748779200
    /\ input \in SortInputs
    /\ call = Idle
    /\ PaginationIdle

NextSort ==
    \/ UseRecentCalendarEvents
    \/ UseUpcomingCalendarEvents

SpecSort == InitSort /\ [][NextSort]_vars

\* C22: the recent query returns its events sorted ascending by start: any
\* two date-based events of the list appear in non-decreasing lexicographic
\* start order, and any two time-based events in non-decreasing numeric
\* start order.
C22_RecentSortedByStart ==
    call.op = "recent" =>
        \A i, j \in 1..Len(call.result) :
            (i < j /\ call.result[i].kind = call.result[j].kind) =>
                IF call.result[i].kind = KindDateBased
                THEN ~StrLess(call.result[j].start, call.result[i].start)
                ELSE call.result[i].start <= call.result[j].start

\* The start of a parsed event as a timestamp: a date-based start is the
\* start of that calendar day (NaN when it names no day).
StartTimestamp(event) ==
    IF event.kind = KindTimeBased THEN Num(event.start)
    ELSE DateToTimestamp(event.start)

\* C23: each upcoming page is sorted ascending by start across kinds: of any
\* two events on the page whose starts are instants, the earlier-listed one
\* has a start not later than the other's, a date-based start being taken as
\* the timestamp of the start of that calendar day.
C23_UpcomingSortedByStart ==
    call.op = "upcoming" =>
        \A i, j \in 1..Len(call.result) :
            LET a == StartTimestamp(call.result[i])
                b == StartTimestamp(call.result[j])
            IN  (i < j /\ IsNum(a) /\ IsNum(b)) => Val(a) <= Val(b)

\* The interval of a parsed event overlaps the half-open range from
\* `startDate` to `endDate` (seconds): an event with an end occupies its
\* start up to, not including, its end; one without is a point at its start.
\* A date-based event is tested against the dates of the range's bounds.
Overlaps(event, startDate, endDate) ==
    IF event.kind = KindTimeBased
    THEN IF event.end # UndefinedNum
         THEN event.start < endDate /\ Val(event.end) > startDate
         ELSE startDate <= event.start /\ event.start < endDate
    ELSE IF Truthy(event.end)
         THEN /\ StrLess(event.start, IsoDateOf(endDate))
              /\ StrLess(IsoDateOf(startDate), event.end)
         ELSE /\ StrLeq(IsoDateOf(startDate), event.start)
              /\ StrLess(event.start, IsoDateOf(endDate))

\* C24: the by-date-range query keeps exactly the validated events that
\* overlap the half-open range: an event with an end occupies the interval
\* from its inclusive start to its exclusive end, an event without end is a
\* point at its start, and the date-based test is the time-based one with
\* date strings in place of timestamps.
C24_RangeKeepsOverlapping ==
    call.op = "range" =>
        LET valid == ValidParsed(call.returned[1] \o call.returned[2])
        IN  /\ Ids(call.result) \subseteq Ids(valid)
            /\ \A i \in 1..Len(valid) :
                   valid[i].id \in Ids(call.result)
                       <=> Overlaps(valid[i], input.startDate, input.endDate)

\* C25: for a search query that begins with "#" (once trimmed and
\* lowercased), the hashtag queried is the trimmed, lowercased query without
\* the leading "#", and every valid event that the hashtag query returns
\* appears in the search result, also when the query text occurs in none of
\* its title, content, summary or locations.
C25_HashtagResultsReturned ==
    (call.op = "search" /\ startsWith(toLowerCase(trim(input.query)), <<"#">>)) =>
        /\ Len(call.issued) >= 1
        /\ call.issued[1].hashtag = Tail(toLowerCase(trim(input.query)))
        /\ call.error = "none" =>
               Ids(ValidParsed(query(relay, call.issued[1])))
                   \subseteq Ids(call.result[1])

\* C25, witness: a search for " #Music " returned an event of the hashtag
\* query that the client-side match does not find.
C25_Witness ==
    /\ call.op = "search"
    /\ input.query = <<" ", "#", "M", "u", "s", "i", "c", " ">>
    /\ call.error = "none"
    /\ LET events == ValidParsed(query(relay, call.issued[1]))
       IN  \E i \in 1..Len(events) :
               /\ TextMatch(events[i], <<"#", "m", "u", "s", "i", "c">>) = "false"
               /\ events[i].id \in Ids(call.result[1])

\* The concatenation of the hashtag results and the client-side matches
\* that the search deduplicates.
CombinedEvents ==
    ValidParsed(call.returned[1])
        \o ClientMatched(call.returned[2], normalizeQuery(input.query))

FirstOccurrence(events, id) ==
    CHOOSE i \in 1..Len(events) :
        /\ events[i].id = id
        /\ \A j \in 1..(i - 1) : events[j].id # id
LastOccurrence(events, id) ==
    CHOOSE i \in 1..Len(events) :
        /\ events[i].id = id
        /\ \A j \in (i + 1)..Len(events) : events[j].id # id

\* The result holds one entry for each id of the concatenation, the ids in
\* the order of their first occurrences.
OnePerIdInOrder ==
    /\ Len(call.origins) = Len(call.result)
    /\ Ids(call.result) = Ids(CombinedEvents)
    /\ \A k \in 1..Len(call.result) :
           /\ call.origins[k] \in 1..Len(CombinedEvents)
           /\ CombinedEvents[call.origins[k]].id = call.result[k].id
           /\ call.result[k] = CombinedEvents[call.origins[k]]
    /\ \A j, k \in 1..Len(call.result) :
           j < k => FirstOccurrence(CombinedEvents, call.result[j].id)
                       < FirstOccurrence(CombinedEvents, call.result[k].id)

\* C26: search deduplication is first-occurrence-wins and order-preserving:
\* when an id occurs more than once in the concatenation of the hashtag
\* results followed by the client-side matches, the returned list holds the
\* object of the first occurrence, at the position of the first occurrence,
\* and the relative order of distinct ids is unchanged.
C26_Original ==
    (call.op = "search" /\ ~call.failed) =>
        /\ OnePerIdInOrder
        /\ \A k \in 1..Len(call.result) :
               call.origins[k] = FirstOccurrence(CombinedEvents, call.result[k].id)

\* C26, amended: the returned list holds one entry per id, at the position
\* of the id's first occurrence, and the entry is the object of the id's
\* last occurrence; the relative order of distinct ids is unchanged.
C26_FirstPlaceLastObject ==
    (call.op = "search" /\ ~call.failed) =>
        /\ OnePerIdInOrder
        /\ \A k \in 1..Len(call.result) :
               call.origins[k] = LastOccurrence(CombinedEvents, call.result[k].id)

\* C26, witness: a search returned two ids, the first of which both the
\* hashtag query and the client-side match had found.
C26_Witness ==
    /\ call.op = "search"
    /\ ~call.failed
    /\ Len(call.result) >= 2
    /\ FirstOccurrence(CombinedEvents, call.result[1].id)
           < LastOccurrence(CombinedEvents, call.result[1].id)

\* C27: upcoming pagination is complete: for a fixed relay content, when
\* pagination has ended (the first empty page has come), every valid event
\* of the relay whose start is in the future has been returned on some page.
C27_PaginationComplete ==
    (fetched /\ ~isFetchingNextPage /\ page = <<>>) =>
        Ids(SelectUpcoming(ValidParsed(relay), now)) \subseteq seen

\* C28: the validator subsumes the parser: for every raw event that
\* validateCalendarEvent accepts, parseCalendarEvent returns a non-null event
\* of the same kind, and when the raw event has an end tag the parsed event
\* has an end, strictly greater than its start.
C28_ValidatorSubsumesParser ==
    (call.op = "parseCalendarEvent" /\ validateCalendarEvent(input)) =>
        /\ call.result # Null
        /\ call.result.kind = input.kind
        /\ HasTag(input, <<"e", "n", "d">>) =>
               IF input.kind = KindTimeBased
               THEN /\ call.result.end # UndefinedNum
                    /\ Val(call.result.end) > call.result.start
               ELSE /\ Truthy(call.result.end)
                    /\ StrLess(call.result.start, call.result.end)

\* The raw event a published calendar event becomes once id, pubkey and
\* created_at are added.
PublishedRawEvent ==
    RawEvent("id1", input.user, call.published[1].kind, now,
             call.published[1].content, call.published[1].tags)

\* C29: every calendar event that the date-based or the time-based publish
\* operation hands to the collaborator's publish is a raw event that
\* validateCalendarEvent accepts once id, pubkey and created_at are added;
\* its title and its d are not empty.
C29_PublishedEventIsValid ==
    (call.op \in {"date", "time"} /\ call.published # <<>>) =>
        validateCalendarEvent(PublishedRawEvent)

\* The RSVP object with the field values of the hook's arguments and the
\* identifier `d`; its content is the note, the empty string without one.
RsvpObjectOf(user, props, d, nowSeconds) ==
    [id |-> "", pubkey |-> user, created_at |-> nowSeconds, kind |-> KindRSVP,
     content |-> IF props.note = Undefined THEN <<>> ELSE props.note,
     eventCoordinates |-> props.eventCoordinates, eventId |-> props.eventId,
     d |-> d, status |-> props.status, freebusy |-> props.freebusy,
     authorPubkey |-> props.authorPubkey]

\* C30: the RSVP publish operation and serializeCalendarRSVP agree: for
\* every input the publish operation does not reject, the kind, the content
\* and the tag sequence it publishes equal those serializeCalendarRSVP
\* returns for the RSVP object with the same field values and the same d.
C30_RsvpPublishAgrees ==
    (call.op = "rsvp" /\ call.published # <<>>) =>
        LET published == call.published[1]
            serialized ==
                serializeCalendarRSVP(
                    RsvpObjectOf(input.user, input.props, published.tags[2][2],
                                 now))
        IN  /\ published.kind = serialized.kind
            /\ published.content = serialized.content
            /\ published.tags = serialized.tags

\* C30, witness: an accepted RSVP with a note, an event id, a freebusy value
\* and the author's pubkey was published with its six tags.
C30_Witness ==
    /\ call.op = "rsvp"
    /\ call.published # <<>>
    /\ input.props.status = <<"a", "c", "c", "e", "p", "t", "e", "d">>
    /\ input.props.note = <<"s", "e", "e", " ", "y", "o", "u">>
    /\ call.published[1].content = <<"s", "e", "e", " ", "y", "o", "u">>
    /\ [i \in 1..Len(call.published[1].tags) |-> call.published[1].tags[i][1]]
           = <<<<"a">>, <<"d">>, <<"s", "t", "a", "t", "u", "s">>, <<"e">>, <<"f", "b">>, <<"p">>>>

=============================================================================
